---- MODULE Spec2Model ----
(***************************************************************************)
(* The daily-cycle state machine of MovieNight (src/hooks/useDailyCycle.ts) *)
(* The cycle document lives in a shared store; every client subscribes to  *)
(* it, re-evaluates the auto-advance conditions 100 ms after each snapshot *)
(* and writes the transition with a partial update.                        *)
(***************************************************************************)
EXTENDS Integers, Sequences, FiniteSets, TLC

\* ------------------------------------------------------------------------
\* Populations and bounds
\* ------------------------------------------------------------------------
Users == {"u1", "u2", "u3"}
Clients == {"c1", "c2"}
Movies == {"m1", "m2"}

\* delayed checks one client may hold at a time
MaxPending == 1
\* reveal timers one client may hold at a time
MaxTimers == 1
Statuses ==
  {"WAITING_FOR_DECISIONS", "GATHERING_NOMINATIONS", "GATHERING_VOTES",
   "REVEAL", "DASHBOARD_VIEW"}

\* position of a status in the cycle's phase order
Rank(s) ==
  CASE s = "WAITING_FOR_DECISIONS" -> 0
    [] s = "GATHERING_NOMINATIONS" -> 1
    [] s = "GATHERING_VOTES" -> 2
    [] s = "REVEAL" -> 3
    [] s = "DASHBOARD_VIEW" -> 4

\* ------------------------------------------------------------------------
\* Values
\* ------------------------------------------------------------------------
\* a map with no keys ({} in the source)
EmptyMap == [u \in {} |-> TRUE]

\* winning_movie: the field is missing (undefined), null, or {movie_id, score}
UndefinedWinner == [movie_id |-> "undefined", score |-> 0]
NullWinner == [movie_id |-> "null", score |-> 0]

\* a vote record; "" is an empty pick
Vote(t, s, th) == [top_pick |-> t, second_pick |-> s, third_pick |-> th]

\* the document a fresh cycle is created with
NewCycle ==
  [exists |-> TRUE,
   current_status |-> "WAITING_FOR_DECISIONS",
   decisions |-> EmptyMap,
   nominations |-> EmptyMap,
   votes |-> EmptyMap,
   winning_movie |-> UndefinedWinner,
   finish_by_time |-> "03:30"]

\* no document under the cycle id
NoDoc == [NewCycle EXCEPT !.exists = FALSE]

\* ------------------------------------------------------------------------
\* Sequence helpers
\* ------------------------------------------------------------------------
RECURSIVE Flat(_, _)
\* Object.values(map).flat() with the map's keys visited in the order `order`
Flat(map, order) ==
  IF order = <<>> THEN <<>>
  ELSE map[Head(order)] \o Flat(map, Tail(order))

RECURSIVE Unique(_)
\* [...new Set(seq)]: first occurrences, in order
Unique(seq) ==
  IF seq = <<>> THEN <<>>
  ELSE LET rest == Unique(SubSeq(seq, 1, Len(seq) - 1))
           x == seq[Len(seq)]
       IN IF \E i \in 1..Len(rest) : rest[i] = x THEN rest ELSE Append(rest, x)

\* the users in ascending id order
UserOrder == <<"u1", "u2", "u3", "u4">>

\* Object.keys(map): the keys of a map field, which the store keeps in
\* ascending key order
KeyOrder(map) == SelectSeq(UserOrder, LAMBDA u : u \in DOMAIN map)

\* ------------------------------------------------------------------------
\* calculateWinner (useDailyCycle.ts 156-179)
\* ------------------------------------------------------------------------
\* one point for every slot, whatever its rank
VotePoints_flat(vote, m) ==
  (IF vote.top_pick # "" /\ vote.top_pick = m THEN 1 ELSE 0)
  + (IF vote.second_pick # "" /\ vote.second_pick = m THEN 1 ELSE 0)
  + (IF vote.third_pick # "" /\ vote.third_pick = m THEN 1 ELSE 0)

\* points one vote record gives to movie id m
VotePoints(vote, m) ==
  (IF vote.top_pick # "" /\ vote.top_pick = m THEN 3 ELSE 0)
  + (IF vote.second_pick # "" /\ vote.second_pick = m THEN 2 ELSE 0)
  + (IF vote.third_pick # "" /\ vote.third_pick = m THEN 1 ELSE 0)

RECURSIVE SumPoints(_, _, _)
\* scores[m] after the forEach over Object.values(votes)
SumPoints(votes, voters, m) ==
  IF voters = {} THEN 0
  ELSE LET u == CHOOSE x \in voters : TRUE
       IN VotePoints(votes[u], m) + SumPoints(votes, voters \ {u}, m)

Score(votes, m) == SumPoints(votes, DOMAIN votes, m)

\* first element of a stable sort by score descending: the earliest id in
\* ids whose score no other id exceeds
FirstOfSorted(ids, votes) ==
  LET best == CHOOSE i \in 1..Len(ids) :
                /\ \A j \in 1..Len(ids) : Score(votes, ids[j]) <= Score(votes, ids[i])
                /\ \A j \in 1..(i - 1) : Score(votes, ids[j]) < Score(votes, ids[i])
  IN [movie_id |-> ids[best], score |-> Score(votes, ids[best])]

\* calculateWinner returning sortedMovies[0] without the `|| null`
calculateWinnerIn_noNull(nominations, votes, order) ==
  LET uniqueMovieIds == Unique(Flat(nominations, order))
  IN IF uniqueMovieIds = <<>> THEN UndefinedWinner
     ELSE FirstOfSorted(uniqueMovieIds, votes)

\* calculateWinner sorting every id that has a score (Object.keys(scores)):
\* the nominated ids, then the ids only votes name
calculateWinnerIn_allScored(nominations, votes, order) ==
  LET uniqueMovieIds == Unique(Flat(nominations, order))
      voted == SelectSeq(<<"m1", "m2", "m3">>,
                         LAMBDA m : Score(votes, m) > 0
                                    /\ \A i \in 1..Len(uniqueMovieIds) : uniqueMovieIds[i] # m)
  IN IF uniqueMovieIds \o voted = <<>> THEN NullWinner
     ELSE FirstOfSorted(uniqueMovieIds \o voted, votes)

\* calculateWinner with the nominations map visited in key order `order`
calculateWinnerIn(nominations, votes, order) ==
  LET uniqueMovieIds == Unique(Flat(nominations, order))
  IN IF uniqueMovieIds = <<>> THEN NullWinner
     ELSE FirstOfSorted(uniqueMovieIds, votes)

calculateWinner(cycle) ==
  calculateWinnerIn(cycle.nominations, cycle.votes, KeyOrder(cycle.nominations))

\* ------------------------------------------------------------------------
\* RevealScreen.calculateWinner and displayWinner (RevealScreen.tsx 29-84)
\* ------------------------------------------------------------------------
\* the shared pool (useSharedMovies) is a map from the ids of the shared
\* movies to their records; find(m => m.id === id) succeeds on its keys
Resolvable(pool, m) == m \in DOMAIN pool

\* the boost of one vote record for movie id m: 1 per slot equal to m
BoostPoints(vote, m) ==
  (IF vote.top_pick = m THEN 1 ELSE 0)
  + (IF vote.second_pick = m THEN 1 ELSE 0)
  + (IF vote.third_pick = m THEN 1 ELSE 0)

RECURSIVE SumBoost(_, _, _)
\* the inner forEach over Object.values(votes) of the boost
SumBoost(votes, voters, m) ==
  IF voters = {} THEN 0
  ELSE LET u == CHOOSE x \in voters : TRUE
       IN BoostPoints(votes[u], m) + SumBoost(votes, voters \ {u}, m)

\* scores[m] on the reveal screen: the ranked points, plus the boost when
\* the movie is in the pool with nomination_streak >= 5
RevealScore(pool, votes, m) ==
  Score(votes, m)
  + (IF Resolvable(pool, m) /\ pool[m].nomination_streak >= 5
     THEN SumBoost(votes, DOMAIN votes, m) ELSE 0)

\* the sort callback is negative: a is placed before b
RevealBefore(pool, votes, a, b) ==
  \/ RevealScore(pool, votes, a) > RevealScore(pool, votes, b)
  \/ /\ RevealScore(pool, votes, a) = RevealScore(pool, votes, b)
     /\ pool[a].runtime < pool[b].runtime

\* the result when sortedMovies is empty (undefined)
NoRevealWinner == [id |-> "undefined", score |-> 0, resolved |-> FALSE, runtime |-> 0]

\* RevealScreen.calculateWinner: the candidates found in the pool, in a
\* stable sort by score descending, then runtime ascending; its first element
RevealWinner(nominations, votes, pool) ==
  LET uniqueMovieIds == Unique(Flat(nominations, KeyOrder(nominations)))
      found == SelectSeq(uniqueMovieIds, LAMBDA m : Resolvable(pool, m))
  IN IF found = <<>> THEN NoRevealWinner
     ELSE LET best == CHOOSE i \in 1..Len(found) :
                        /\ \A j \in 1..Len(found) : ~RevealBefore(pool, votes, found[j], found[i])
                        /\ \A j \in 1..(i - 1) : RevealBefore(pool, votes, found[i], found[j])
          IN [id |-> found[best], score |-> RevealScore(pool, votes, found[best]),
              resolved |-> TRUE, runtime |-> pool[found[best]].runtime]

\* displayWinner: the calculated winner, or a generic movie of 120 minutes
\* under the recorded winner's id and score ('unknown' and 0 without one)
displayWinner(d, pool) ==
  LET w == RevealWinner(d.nominations, d.votes, pool)
  IN IF w # NoRevealWinner THEN w
     ELSE IF d.winning_movie \in {UndefinedWinner, NullWinner}
          THEN [id |-> "unknown", score |-> 0, resolved |-> FALSE, runtime |-> 120]
          ELSE [id |-> d.winning_movie.movie_id, score |-> d.winning_movie.score,
                resolved |-> FALSE, runtime |-> 120]

\* ------------------------------------------------------------------------
\* Dates: local calendar fields over an instant counted in minutes
\* ------------------------------------------------------------------------
\* the local date of minute 0 and the last day the clock reaches
Epoch == [year |-> 2025, month |-> 12, date |-> 30]
LastDay == 6

DaysIn(month) == IF month = 2 THEN 28 ELSE IF month \in {4, 6, 9, 11} THEN 30 ELSE 31

\* the calendar day after c
NextDay(c) ==
  IF c.date < DaysIn(c.month) THEN [c EXCEPT !.date = @ + 1]
  ELSE IF c.month < 12 THEN [c EXCEPT !.month = @ + 1, !.date = 1]
  ELSE [year |-> c.year + 1, month |-> 1, date |-> 1]

RECURSIVE CalendarOf(_)
\* getFullYear / getMonth / getDate of the n-th day after Epoch
CalendarOf(n) == IF n = 0 THEN Epoch ELSE NextDay(CalendarOf(n - 1))

\* new Date(t): the local fields of instant t
DateOf(t) ==
  LET c == CalendarOf(t \div 1440)
  IN [year |-> c.year, month |-> c.month, date |-> c.date,
      hours |-> (t % 1440) \div 60, minutes |-> t % 60]

\* Date.getTime(), in minutes
getTime(d) ==
  LET n == CHOOSE k \in 0..(LastDay + 2) :
             CalendarOf(k) = [year |-> d.year, month |-> d.month, date |-> d.date]
  IN n * 1440 + d.hours * 60 + d.minutes

\* Date.setDate(v) for v from 0 to one past the month's end: the date
\* overflows into the neighbouring month
setDate(d, v) ==
  IF v < 1
  THEN IF d.month > 1
       THEN [d EXCEPT !.month = @ - 1, !.date = DaysIn(d.month - 1) + v]
       ELSE [d EXCEPT !.year = @ - 1, !.month = 12, !.date = 31 + v]
  ELSE IF v > DaysIn(d.month)
       THEN IF d.month < 12
            THEN [d EXCEPT !.month = @ + 1, !.date = v - DaysIn(d.month)]
            ELSE [d EXCEPT !.year = @ + 1, !.month = 1, !.date = v - 31]
       ELSE [d EXCEPT !.date = v]

\* Date.setHours(h, m, 0, 0)
setHours(d, h, m) == [d EXCEPT !.hours = h, !.minutes = m]

\* format(d, 'yyyy-MM-dd'): the date key
format(d) == [yyyy |-> d.year, MM |-> d.month, dd |-> d.date]

\* ------------------------------------------------------------------------
\* getCurrentCycleId (useDailyCycle.ts 7-19)
\* ------------------------------------------------------------------------
\* the day boundary tested with hour <= 4
getCurrentCycleId_inclusive(t) ==
  LET now_ == DateOf(t)
  IN IF now_.hours <= 4 THEN format(setDate(now_, now_.date - 1)) ELSE format(now_)

\* the cycle id at instant t
getCurrentCycleId(t) ==
  LET now_ == DateOf(t)
  IN IF now_.hours < 4 THEN format(setDate(now_, now_.date - 1)) ELSE format(now_)

\* ------------------------------------------------------------------------
\* calculateSchedule (DashboardScreen.tsx 22-73)
\* ------------------------------------------------------------------------
\* finishTime.split(':').map(Number) on the clock strings a document holds
ClockTimes ==
  ("03:30" :> <<3, 30>>) @@ ("00:00" :> <<0, 0>>) @@ ("11:59" :> <<11, 59>>)
  @@ ("12:00" :> <<12, 0>>) @@ ("23:45" :> <<23, 45>>)

\* calculateSchedule returned null
NoSchedule ==
  [movie_id |-> "null", startTime |-> 0, finishTime |-> 0,
   totalBreaks |-> 0, totalBreakTime |-> 0, totalRuntime |-> 0]

\* calculateSchedule with a break counted for every started interval
calculateSchedule_ceil(d, pool, t) ==
  IF d.winning_movie \in {UndefinedWinner, NullWinner} THEN NoSchedule
  ELSE LET id == d.winning_movie.movie_id
           runtime == IF Resolvable(pool, id) THEN pool[id].runtime ELSE 120
           numberOfBreaks == (runtime + 39) \div 40
           totalBreakTime == numberOfBreaks * 15
           totalEventDuration == runtime + totalBreakTime
           finishHour == ClockTimes[d.finish_by_time][1]
           finishMin == ClockTimes[d.finish_by_time][2]
           today == setHours(DateOf(t), finishHour, finishMin)
           finishDateTime == IF finishHour < 12 THEN setDate(today, today.date + 1) ELSE today
       IN [movie_id |-> id,
           startTime |-> getTime(finishDateTime) - totalEventDuration,
           finishTime |-> getTime(finishDateTime),
           totalBreaks |-> numberOfBreaks,
           totalBreakTime |-> totalBreakTime,
           totalRuntime |-> runtime]

\* calculateSchedule rolling the finish to the next day for every hour
calculateSchedule_always(d, pool, t) ==
  IF d.winning_movie \in {UndefinedWinner, NullWinner} THEN NoSchedule
  ELSE LET id == d.winning_movie.movie_id
           runtime == IF Resolvable(pool, id) THEN pool[id].runtime ELSE 120
           numberOfBreaks == runtime \div 40
           totalBreakTime == numberOfBreaks * 15
           totalEventDuration == runtime + totalBreakTime
           finishHour == ClockTimes[d.finish_by_time][1]
           finishMin == ClockTimes[d.finish_by_time][2]
           today == setHours(DateOf(t), finishHour, finishMin)
           finishDateTime == setDate(today, today.date + 1)
       IN [movie_id |-> id,
           startTime |-> getTime(finishDateTime) - totalEventDuration,
           finishTime |-> getTime(finishDateTime),
           totalBreaks |-> numberOfBreaks,
           totalBreakTime |-> totalBreakTime,
           totalRuntime |-> runtime]

\* calculateSchedule for document d, the shared pool and the instant t of
\* `new Date()`; the times are getTime() values
calculateSchedule(d, pool, t) ==
  IF d.winning_movie \in {UndefinedWinner, NullWinner} THEN NoSchedule
  ELSE LET id == d.winning_movie.movie_id
           runtime == IF Resolvable(pool, id) THEN pool[id].runtime ELSE 120
           numberOfBreaks == runtime \div 40
           totalBreakTime == numberOfBreaks * 15
           totalEventDuration == runtime + totalBreakTime
           finishHour == ClockTimes[d.finish_by_time][1]
           finishMin == ClockTimes[d.finish_by_time][2]
           today == setHours(DateOf(t), finishHour, finishMin)
           finishDateTime == IF finishHour < 12 THEN setDate(today, today.date + 1) ELSE today
       IN [movie_id |-> id,
           startTime |-> getTime(finishDateTime) - totalEventDuration,
           finishTime |-> getTime(finishDateTime),
           totalBreaks |-> numberOfBreaks,
           totalBreakTime |-> totalBreakTime,
           totalRuntime |-> runtime]

\* ------------------------------------------------------------------------
\* checkAndAdvanceStatus (useDailyCycle.ts 80-154)
\* ------------------------------------------------------------------------
\* the field map of an updateDoc call on the cycle document; hasWinner tells
\* whether the call carries winning_movie; NoWrite: no updateDoc call
StatusWrite(s) == [current_status |-> s, hasWinner |-> FALSE, winning_movie |-> UndefinedWinner]
RevealWrite(w) == [current_status |-> "REVEAL", hasWinner |-> TRUE, winning_movie |-> w]
NoWrite == StatusWrite("none")

yesDecisions(cycle) == {u \in DOMAIN cycle.decisions : cycle.decisions[u] = TRUE}

\* checkAndAdvanceStatus without the inner test of the yes-count
checkAndAdvanceStatus_anyYes(cycle) ==
  LET decisions == Cardinality(DOMAIN cycle.decisions)
      nominations == Cardinality(DOMAIN cycle.nominations)
      votes == Cardinality(DOMAIN cycle.votes)
      yes == Cardinality(yesDecisions(cycle))
  IN CASE cycle.current_status = "WAITING_FOR_DECISIONS" ->
            IF (yes >= 2 /\ decisions >= 3) \/ (decisions >= 3 /\ yes >= 1)
            THEN StatusWrite("GATHERING_NOMINATIONS")
            ELSE NoWrite
       [] cycle.current_status = "GATHERING_NOMINATIONS" ->
            IF yes > 0 /\ nominations >= yes
            THEN StatusWrite("GATHERING_VOTES") ELSE NoWrite
       [] cycle.current_status = "GATHERING_VOTES" ->
            IF yes > 0 /\ votes >= yes
            THEN RevealWrite(calculateWinner(cycle)) ELSE NoWrite
       [] OTHER -> NoWrite

\* checkAndAdvanceStatus counting only the non-empty nomination lists
checkAndAdvanceStatus_nonEmpty(cycle) ==
  LET decisions == Cardinality(DOMAIN cycle.decisions)
      nominations == Cardinality({u \in DOMAIN cycle.nominations : cycle.nominations[u] # <<>>})
      votes == Cardinality(DOMAIN cycle.votes)
      yes == Cardinality(yesDecisions(cycle))
  IN CASE cycle.current_status = "WAITING_FOR_DECISIONS" ->
            IF (yes >= 2 /\ decisions >= 3) \/ (decisions >= 3 /\ yes >= 1)
            THEN IF yes >= 2 THEN StatusWrite("GATHERING_NOMINATIONS") ELSE NoWrite
            ELSE NoWrite
       [] cycle.current_status = "GATHERING_NOMINATIONS" ->
            IF yes > 0 /\ nominations >= yes
            THEN StatusWrite("GATHERING_VOTES") ELSE NoWrite
       [] cycle.current_status = "GATHERING_VOTES" ->
            IF yes > 0 /\ votes >= yes
            THEN RevealWrite(calculateWinner(cycle)) ELSE NoWrite
       [] OTHER -> NoWrite

\* checkAndAdvanceStatus sending REVEAL without the winner
checkAndAdvanceStatus_statusOnly(cycle) ==
  LET decisions == Cardinality(DOMAIN cycle.decisions)
      nominations == Cardinality(DOMAIN cycle.nominations)
      votes == Cardinality(DOMAIN cycle.votes)
      yes == Cardinality(yesDecisions(cycle))
  IN CASE cycle.current_status = "WAITING_FOR_DECISIONS" ->
            IF (yes >= 2 /\ decisions >= 3) \/ (decisions >= 3 /\ yes >= 1)
            THEN IF yes >= 2 THEN StatusWrite("GATHERING_NOMINATIONS") ELSE NoWrite
            ELSE NoWrite
       [] cycle.current_status = "GATHERING_NOMINATIONS" ->
            IF yes > 0 /\ nominations >= yes
            THEN StatusWrite("GATHERING_VOTES") ELSE NoWrite
       [] cycle.current_status = "GATHERING_VOTES" ->
            IF yes > 0 /\ votes >= yes
            THEN StatusWrite("REVEAL") ELSE NoWrite
       [] OTHER -> NoWrite

\* the update checkAndAdvanceStatus(cycle) sends, NoWrite when it sends none
checkAndAdvanceStatus(cycle) ==
  LET decisions == Cardinality(DOMAIN cycle.decisions)
      nominations == Cardinality(DOMAIN cycle.nominations)
      votes == Cardinality(DOMAIN cycle.votes)
      yes == Cardinality(yesDecisions(cycle))
  IN CASE cycle.current_status = "WAITING_FOR_DECISIONS" ->
            IF (yes >= 2 /\ decisions >= 3) \/ (decisions >= 3 /\ yes >= 1)
            THEN IF yes >= 2 THEN StatusWrite("GATHERING_NOMINATIONS") ELSE NoWrite
            ELSE NoWrite
       [] cycle.current_status = "GATHERING_NOMINATIONS" ->
            IF yes > 0 /\ nominations >= yes
            THEN StatusWrite("GATHERING_VOTES") ELSE NoWrite
       [] cycle.current_status = "GATHERING_VOTES" ->
            IF yes > 0 /\ votes >= yes
            THEN RevealWrite(calculateWinner(cycle)) ELSE NoWrite
       [] OTHER -> NoWrite

\* ------------------------------------------------------------------------
\* Store operations
\* ------------------------------------------------------------------------
\* map with key k set to v (a dotted field path `field.k`)
Put(map, k, v) == [x \in DOMAIN map \cup {k} |-> IF x = k THEN v ELSE map[x]]

\* a write that replaces the document instead of merging into it
UpdateDoc_replace(d, w) ==
  [NewCycle EXCEPT !.current_status = w.current_status,
                   !.winning_movie = IF w.hasWinner THEN w.winning_movie ELSE d.winning_movie]

\* updateDoc(cycleRef, w) for a status write: only the named fields change
UpdateDoc(d, w) ==
  IF w.hasWinner
  THEN [d EXCEPT !.current_status = w.current_status, !.winning_movie = w.winning_movie]
  ELSE [d EXCEPT !.current_status = w.current_status]

\* the whole decisions field written instead of the path decisions.<userId>
UpdateDecision_wholeMap(d, u, v) == [d EXCEPT !.decisions = Put(EmptyMap, u, v)]

\* updateDoc(ref, {[`decisions.${userId}`]: decision})
UpdateDecision(d, u, v) == [d EXCEPT !.decisions = Put(d.decisions, u, v)]
\* updateDoc(ref, {[`nominations.${userId}`]: movieIds})
UpdateNominations(d, u, l) == [d EXCEPT !.nominations = Put(d.nominations, u, l)]
\* updateDoc(ref, {[`votes.${userId}`]: votes})
UpdateVotes(d, u, v) == [d EXCEPT !.votes = Put(d.votes, u, v)]

\* ------------------------------------------------------------------------
\* What the screens let a participant submit
\* ------------------------------------------------------------------------
\* the answers each user may give on the decision screen
Answers == [u \in Users |-> CASE u = "u1" -> {TRUE} [] u = "u2" -> BOOLEAN [] OTHER -> {FALSE}]

\* each user's movie library (useMovieLibrary(user.id))
Library == [u \in Users |-> IF u = "u1" THEN {"m1"} ELSE {}]

\* the lists handleSubmitNominations can send for user u: a non-empty
\* selection from the user's library (the button is disabled on an empty one)
SelectedMovies(u) == {<<m>> : m \in Library[u]}

RECURSIVE SeqToSet(_)
SeqToSet(seq) == IF seq = <<>> THEN {} ELSE {Head(seq)} \cup SeqToSet(Tail(seq))

\* VotingScreen.nominatedMovies: the shared movies whose id is nominated
\* (every nominated movie was shared before its nomination was written)
nominatedMovies(cycle) == SeqToSet(Flat(cycle.nominations, KeyOrder(cycle.nominations)))

\* [a, b, c].filter(Boolean): the non-empty picks in slot order
Picks(v) == SelectSeq(<<v.top_pick, v.second_pick, v.third_pick>>, LAMBDA x : x # "")

\* Math.min(3, nominatedMovies.length)
requiredPicks(cycle) ==
  IF Cardinality(nominatedMovies(cycle)) < 3 THEN Cardinality(nominatedMovies(cycle)) ELSE 3

\* what the three selects can hold: a nominated movie or nothing, and
\* nothing in a select that is disabled (slot index >= number of movies)
FormStates(cycle) ==
  LET n == Cardinality(nominatedMovies(cycle))
      pick == nominatedMovies(cycle) \cup {""}
  IN {v \in [top_pick : pick, second_pick : pick, third_pick : pick] :
        /\ n < 1 => v.top_pick = ""
        /\ n < 2 => v.second_pick = ""
        /\ n < 3 => v.third_pick = ""}

\* a handler that checks the number of picks only
RefusesVote_countOnly(cycle, v) == Len(Picks(v)) < requiredPicks(cycle)

\* handleSubmitVote returns early: too few picks, or the set of the picks
\* is smaller than their list
RefusesVote(cycle, v) ==
  \/ Len(Picks(v)) < requiredPicks(cycle)
  \/ Cardinality(SeqToSet(Picks(v))) # Len(Picks(v))

\* the vote records handleSubmitVote passes on to submitVote
AcceptedVotes(cycle) == {v \in FormStates(cycle) : ~RefusesVote(cycle, v)}

\* ------------------------------------------------------------------------
\* State
\* ------------------------------------------------------------------------
VARIABLES
  doc,        \* the cycle document in the store
  unseen,     \* per client: the document changed since its listener last ran
  pending,    \* per client: updates of delayed checks not yet run
  timers,     \* per client: reveal timers not yet fired
  timerLost,  \* a reveal timer died with its page or its write failed
  cycle,      \* the snapshot handed to a function applied on its own
  update,     \* what checkAndAdvanceStatus(cycle) sent
  winner,     \* what calculateWinner(cycle) returned
  sharedMovies, \* the shared pool a screen reads
  shown,      \* what the reveal screen displays as the winner
  schedule,   \* what calculateSchedule returned on the dashboard
  selectedMovies, \* the selection on a user's nomination screen
  now,        \* the instant of the local clock, in minutes
  cycleId,    \* what getCurrentCycleId returned
  subscribed, \* the cycle id the mounted listener is subscribed under
  creating,   \* per client: setDoc calls of a new cycle not yet at the store
  outcome     \* how the last call of a hook operation or screen handler ended

\* the document and its outstanding change notifications
store == <<doc, unseen>>

\* a write that changed the document makes the store notify every listener
\* (onSnapshot); a write that changed nothing, or failed, notifies no one
Notify == unseen' = IF doc' # doc THEN [c \in Clients |-> TRUE] ELSE unseen

\* the variables of the screens and of the clock
screens == <<sharedMovies, shown, schedule, selectedMovies>>
clock == <<now, cycleId, subscribed>>

vars == <<doc, unseen, pending, timers, timerLost, cycle, update, winner, screens, clock, creating,
          outcome>>

\* the variables of the functions applied on their own and of document
\* creation
local == <<cycle, update, winner, screens, clock, creating>>

\* the same and the outcome of the last call
pure == <<local, outcome>>

\* update / winner before the function ran
NotRun == StatusWrite("not run")
NoResult == [movie_id |-> "not run", score |-> 0]

\* shown / schedule / cycleId before the screen or the function ran
NotShown == [id |-> "not run", score |-> 0, resolved |-> FALSE, runtime |-> 0]
NotScheduled == [NoSchedule EXCEPT !.movie_id = "not run"]
NoCycleId == [yyyy |-> 0, MM |-> 0, dd |-> 0]

\* outcome before any call; a call that resolved; a call that rejected (the
\* catch block's `throw err`); a screen handler that returned before calling
\* the hook (toast.error(text); return)
NoCall == [op |-> "none", end |-> "none"]
Returned(op) == [op |-> op, end |-> "resolved"]
Threw(op) == [op |-> op, end |-> "threw"]
Refused(op, text) == [op |-> op, end |-> text]

\* the pool after the library's movie was shared, and an evening instant
LibraryPool == [m \in {"m1"} |-> [runtime |-> 120, nomination_streak |-> 0]]
Evening == 1440 + 20 * 60

\* no screen has computed anything, no creation is under way
Idle ==
  /\ sharedMovies = LibraryPool
  /\ shown = NotShown
  /\ schedule = NotScheduled
  /\ now = Evening
  /\ cycleId = NoCycleId
  /\ subscribed = NoCycleId
  /\ creating = [c \in Clients |-> {}]
  /\ outcome = NoCall
  /\ selectedMovies = <<>>
  /\ unseen = [c \in Clients |-> TRUE]

\* the first subscriber has created the day's cycle (useDailyCycle.ts 54-68)
Init ==
  /\ doc = NewCycle
  /\ pending = [c \in Clients |-> {}]
  /\ timers = [c \in Clients |-> 0]
  /\ timerLost = FALSE
  /\ cycle = NewCycle
  /\ update = NotRun
  /\ winner = NoResult
  /\ Idle

\* ------------------------------------------------------------------------
\* Snapshot handler (useDailyCycle.ts 30-75)
\* ------------------------------------------------------------------------
\* the document exists: the handler captures the cycle and schedules
\* checkAndAdvanceStatus(cycle) 100 ms later.  The check reads only the
\* captured cycle, so the update it will send is fixed here; a check that
\* sends no update has no effect and is not kept.
OnSnapshot(c) ==
  LET w == checkAndAdvanceStatus(doc)
  IN /\ doc.exists
     /\ w # NoWrite
     /\ w \notin pending[c]
     /\ Cardinality(pending[c]) < MaxPending
     /\ pending' = [pending EXCEPT ![c] = @ \cup {w}]
     /\ unseen' = [unseen EXCEPT ![c] = FALSE]
     /\ UNCHANGED <<doc, timers, timerLost, pure>>

\* ------------------------------------------------------------------------
\* Delayed check and reveal timer (useDailyCycle.ts 51-53, 96-153)
\* ------------------------------------------------------------------------
\* the delayed check without the setTimeout after the REVEAL write
Check_noTimer(c, w, ok) ==
  /\ w \in pending[c]
  /\ w.current_status = "REVEAL" => timers[c] < MaxTimers
  /\ pending' = [pending EXCEPT ![c] = @ \ {w}]
  /\ IF ok /\ doc.exists
     THEN doc' = UpdateDoc(doc, w)
     ELSE UNCHANGED doc
  /\ outcome' = Returned("checkAndAdvanceStatus")
  /\ Notify
  /\ UNCHANGED <<timers, timerLost, local>>

\* a delayed check that logs its decision and sends nothing
Check_logOnly(c, w, ok) ==
  /\ w \in pending[c]
  /\ w.current_status = "REVEAL" => timers[c] < MaxTimers
  /\ pending' = [pending EXCEPT ![c] = @ \ {w}]
  /\ outcome' = Returned("checkAndAdvanceStatus")
  /\ UNCHANGED <<store, timers, timerLost, local>>

\* the delayed check with the setTimeout after the try block instead of in it
Check_timerOutsideTry(c, w, ok) ==
  /\ w \in pending[c]
  /\ w.current_status = "REVEAL" => timers[c] < MaxTimers
  /\ pending' = [pending EXCEPT ![c] = @ \ {w}]
  /\ doc' = IF ok /\ doc.exists THEN UpdateDoc(doc, w) ELSE doc
  /\ timers' = IF w.current_status = "REVEAL" THEN [timers EXCEPT ![c] = @ + 1] ELSE timers
  /\ outcome' = Returned("checkAndAdvanceStatus")
  /\ Notify
  /\ UNCHANGED <<timerLost, local>>

\* the delayed check of client c runs and sends its update w; ok: the store
\* accepts the write (updateDoc also fails when the document is missing);
\* after a successful REVEAL write the client starts its 10 s timer.  Each
\* updateDoc sits in a try/catch that logs, so the call always resolves
Check(c, w, ok) ==
  /\ w \in pending[c]
  /\ w.current_status = "REVEAL" => timers[c] < MaxTimers
  /\ pending' = [pending EXCEPT ![c] = @ \ {w}]
  /\ IF ok /\ doc.exists
     THEN /\ doc' = UpdateDoc(doc, w)
          /\ timers' = IF w.current_status = "REVEAL"
                       THEN [timers EXCEPT ![c] = @ + 1] ELSE timers
     ELSE UNCHANGED <<doc, timers>>
  /\ outcome' = Returned("checkAndAdvanceStatus")
  /\ Notify
  /\ UNCHANGED <<timerLost, local>>

\* the reveal timer of client c fires: updateDoc DASHBOARD_VIEW, whatever
\* the document holds by then
TimerFire(c, ok) ==
  /\ timers[c] > 0
  /\ timers' = [timers EXCEPT ![c] = @ - 1]
  /\ doc' = IF ok /\ doc.exists THEN UpdateDoc(doc, StatusWrite("DASHBOARD_VIEW")) ELSE doc
  /\ timerLost' = (timerLost \/ ~(ok /\ doc.exists))
  /\ Notify
  /\ UNCHANGED <<pending, pure>>

\* ------------------------------------------------------------------------
\* Participant operations (useDailyCycle.ts 220-254) as the screens call
\* them; App shows the screen of the document's current_status
\* ------------------------------------------------------------------------
\* a makeDecision whose catch block logs and does not rethrow
makeDecision_swallow(userId, decision, ok) ==
  /\ doc.exists
  /\ doc.current_status = "WAITING_FOR_DECISIONS"
  /\ doc' = IF ok THEN UpdateDecision(doc, userId, decision) ELSE doc
  /\ outcome' = Returned("makeDecision")
  /\ Notify
  /\ UNCHANGED <<pending, timers, timerLost, local>>

\* the decision screen calls makeDecision(userId, decision); here and in the
\* next two operations a failed updateDoc is logged and rethrown
makeDecision(userId, decision, ok) ==
  /\ doc.exists
  /\ doc.current_status = "WAITING_FOR_DECISIONS"
  /\ doc' = IF ok THEN UpdateDecision(doc, userId, decision) ELSE doc
  /\ outcome' = IF ok THEN Returned("makeDecision") ELSE Threw("makeDecision")
  /\ Notify
  /\ UNCHANGED <<pending, timers, timerLost, local>>

\* handleSubmitNominations / handleNoNominations call
\* submitNominations(userId, movieIds)
submitNominations(userId, movieIds, ok) ==
  /\ doc.exists
  /\ doc.current_status = "GATHERING_NOMINATIONS"
  /\ userId \notin DOMAIN doc.nominations
  /\ doc' = IF ok THEN UpdateNominations(doc, userId, movieIds) ELSE doc
  /\ outcome' = IF ok THEN Returned("submitNominations") ELSE Threw("submitNominations")
  /\ Notify
  /\ UNCHANGED <<pending, timers, timerLost, local>>

\* submitVote(userId, votes) as handleSubmitVote calls it; the voting screen
\* shows its form only to a user who has not voted and once a nominated
\* movie is in the shared pool
submitVote(userId, votes, ok) ==
  /\ doc.exists
  /\ doc.current_status = "GATHERING_VOTES"
  /\ userId \notin DOMAIN doc.votes
  /\ nominatedMovies(doc) # {}
  /\ doc' = IF ok THEN UpdateVotes(doc, userId, votes) ELSE doc
  /\ outcome' = IF ok THEN Returned("submitVote") ELSE Threw("submitVote")
  /\ Notify
  /\ UNCHANGED <<pending, timers, timerLost, local>>

\* client c closes the page: its delayed checks and timers are lost
Disconnect(c) ==
  /\ pending[c] # {} \/ timers[c] > 0
  /\ pending' = [pending EXCEPT ![c] = {}]
  /\ timers' = [timers EXCEPT ![c] = 0]
  /\ timerLost' = (timerLost \/ timers[c] > 0)
  /\ UNCHANGED <<store, pure>>

Next ==
  \/ \E c \in Clients : OnSnapshot(c)
  \/ \E c \in Clients : \E w \in pending[c] : \E ok \in BOOLEAN : Check(c, w, ok)
  \/ \E c \in Clients : \E ok \in BOOLEAN : TimerFire(c, ok)
  \/ \E u \in Users : \E d \in Answers[u] : \E ok \in BOOLEAN : makeDecision(u, d, ok)
  \/ \E u \in Users : \E l \in SelectedMovies(u) \cup {<<>>} : \E ok \in BOOLEAN :
       submitNominations(u, l, ok)
  \/ \E u \in Users : \E v \in AcceptedVotes(doc) : \E ok \in BOOLEAN : submitVote(u, v, ok)
  \/ \E c \in Clients : Disconnect(c)

Spec == Init /\ [][Next]_vars

\* a timeout that is due runs while its page stays open
FairSpec ==
  /\ Spec
  /\ \A c \in Clients : WF_vars(\E ok \in BOOLEAN : TimerFire(c, ok))
  /\ \A c \in Clients : WF_vars(\E w \in pending[c] : \E ok \in BOOLEAN : Check(c, w, ok))

\* ------------------------------------------------------------------------
\* checkAndAdvanceStatus applied on its own to a snapshot
\* ------------------------------------------------------------------------
AllUsers == {UserOrder[i] : i \in 1..Len(UserOrder)}

\* all maps from some of the users in S to values in V
Maps(S, V) == UNION {[D -> V] : D \in SUBSET S}

\* snapshots for the check: every status, every decisions map of up to four
\* users, nominations with and without empty lists, votes of up to three
CheckCycles ==
  {[NewCycle EXCEPT !.current_status = s, !.decisions = d, !.nominations = n, !.votes = v] :
     s \in Statuses, d \in Maps(AllUsers, BOOLEAN),
     n \in Maps(Users, {<<>>, <<"m1">>}),
     v \in Maps({"u1", "u2"}, {Vote("m1", "", "")})}

\* the store holds the snapshot the client was handed
CheckInit ==
  /\ cycle \in CheckCycles
  /\ doc = cycle
  /\ pending = [c \in Clients |-> {}]
  /\ timers = [c \in Clients |-> 0]
  /\ timerLost = FALSE
  /\ update = NotRun
  /\ winner = NoResult
  /\ Idle

\* checkAndAdvanceStatus(cycle) decides on its update
RunCheck ==
  /\ update = NotRun
  /\ update' = checkAndAdvanceStatus(cycle)
  /\ UNCHANGED <<store, pending, timers, timerLost, cycle, winner, screens, clock, creating, outcome>>

\* its updateDoc call reaches the store
SendUpdate ==
  /\ update \notin {NotRun, NoWrite}
  /\ doc = cycle
  /\ doc' = UpdateDoc(doc, update)
  /\ Notify
  /\ UNCHANGED <<pending, timers, timerLost, cycle, update, winner, screens, clock, creating, outcome>>

CheckNext == RunCheck \/ SendUpdate

CheckSpec == CheckInit /\ [][CheckNext]_vars

\* ------------------------------------------------------------------------
\* Claims on checkAndAdvanceStatus (CheckSpec)
\* ------------------------------------------------------------------------
Total(c) == Cardinality(DOMAIN c.decisions)
Yes(c) == Cardinality({u \in DOMAIN c.decisions : c.decisions[u]})
Nominators(c) == Cardinality(DOMAIN c.nominations)
Voters(c) == Cardinality(DOMAIN c.votes)

C3_Original ==
  update # NotRun /\ cycle.current_status = "GATHERING_NOMINATIONS" =>
    (update = StatusWrite("GATHERING_VOTES") <=> Nominators(cycle) >= Yes(cycle))

\* C3 amended: on a GATHERING_NOMINATIONS snapshot the check sends
\* GATHERING_VOTES exactly when there is at least one yes-decision and
\* nominators >= yes-count; an empty list counts as a nomination entry
C3_VotesIffAllNominated ==
  update # NotRun /\ cycle.current_status = "GATHERING_NOMINATIONS" =>
    /\ update = StatusWrite("GATHERING_VOTES") <=>
         Yes(cycle) > 0 /\ Nominators(cycle) >= Yes(cycle)
    /\ update # StatusWrite("GATHERING_VOTES") => update = NoWrite

\* the transition was written although a needed entry is the empty list
C3_Witness ==
  /\ cycle.current_status = "GATHERING_NOMINATIONS"
  /\ Yes(cycle) = 2 /\ Nominators(cycle) = 2
  /\ \A u \in DOMAIN cycle.nominations : cycle.nominations[u] = <<>>
  /\ update = StatusWrite("GATHERING_VOTES")
  /\ doc.current_status = "GATHERING_VOTES"

\* C4 as claimed: on a GATHERING_VOTES snapshot with voters >= yes-count the
\* check sends REVEAL together with the calculated winner
C4_Original ==
  update # NotRun /\ cycle.current_status = "GATHERING_VOTES"
    /\ Voters(cycle) >= Yes(cycle) =>
       update = RevealWrite(calculateWinner(cycle))

\* C4 amended: on a GATHERING_VOTES snapshot with at least one yes-decision
\* and voters >= yes-count the check sends one update that carries REVEAL
\* and the calculated winner, so the document never shows the REVEAL of this
\* check without that winner
C4_RevealWithWinner ==
  cycle.current_status = "GATHERING_VOTES" =>
    /\ update # NotRun /\ Yes(cycle) > 0 /\ Voters(cycle) >= Yes(cycle) =>
         update = RevealWrite(calculateWinner(cycle))
    /\ doc # cycle =>
         /\ doc.current_status = "REVEAL"
         /\ doc.winning_movie = calculateWinner(cycle)
         /\ doc = [cycle EXCEPT !.current_status = "REVEAL",
                                !.winning_movie = calculateWinner(cycle)]

\* the REVEAL update reached the store with a winner that has points
C4_Witness ==
  /\ cycle.current_status = "GATHERING_VOTES"
  /\ Yes(cycle) = 2 /\ Voters(cycle) = 2
  /\ doc.current_status = "REVEAL"
  /\ doc.winning_movie = [movie_id |-> "m1", score |-> 6]

\* ------------------------------------------------------------------------
\* calculateWinner applied on its own to a cycle
\* ------------------------------------------------------------------------
\* the ids a pick can hold; "m3" is in nobody's nominations
PickIds == Movies \cup {"m3", ""}

AllVotes == [top_pick : PickIds, second_pick : PickIds, third_pick : PickIds]

\* cycles for the winner calculation: nominations of up to two users, with
\* empty lists and repeated ids, and every vote record of up to two voters
CalcCycles ==
  {[NewCycle EXCEPT !.current_status = "GATHERING_VOTES", !.nominations = n, !.votes = v] :
     n \in Maps({"u1", "u2"}, {<<>>, <<"m1">>, <<"m2", "m1">>}),
     v \in Maps({"u1", "u2"}, AllVotes)}

CalcInit ==
  /\ cycle \in CalcCycles
  /\ doc = cycle
  /\ pending = [c \in Clients |-> {}]
  /\ timers = [c \in Clients |-> 0]
  /\ timerLost = FALSE
  /\ update = NotRun
  /\ winner = NoResult
  /\ Idle

RunCalc ==
  /\ winner = NoResult
  /\ winner' = calculateWinner(cycle)
  /\ UNCHANGED <<store, pending, timers, timerLost, cycle, update, screens, clock, creating, outcome>>

CalcNext == RunCalc

CalcSpec == CalcInit /\ [][CalcNext]_vars

\* ------------------------------------------------------------------------
\* Claims on calculateWinner (CalcSpec)
\* ------------------------------------------------------------------------
\* the movie ids some user nominated
Candidates(c) ==
  {m \in PickIds : \E u \in DOMAIN c.nominations :
                     \E i \in 1..Len(c.nominations[u]) : c.nominations[u][i] = m}

\* 3 per top_pick, 2 per second_pick, 1 per third_pick naming m
RankedPoints(c, m) ==
  3 * Cardinality({u \in DOMAIN c.votes : c.votes[u].top_pick = m})
  + 2 * Cardinality({u \in DOMAIN c.votes : c.votes[u].second_pick = m})
  + Cardinality({u \in DOMAIN c.votes : c.votes[u].third_pick = m})

\* C10: the winner is a nominated movie whose score, 3 per top_pick, 2 per
\* second_pick and 1 per third_pick naming it, is maximal among the
\* nominated movies; a nominated movie no vote names has score 0
C10_WinnerHasMaximalScore ==
  winner # NoResult /\ Candidates(cycle) # {} =>
    /\ winner.movie_id \in Candidates(cycle)
    /\ winner.score = RankedPoints(cycle, winner.movie_id)
    /\ \A m \in Candidates(cycle) :
         /\ RankedPoints(cycle, m) <= winner.score
         /\ Score(cycle.votes, m) = RankedPoints(cycle, m)
         /\ (\A u \in DOMAIN cycle.votes :
               m \notin {cycle.votes[u].top_pick, cycle.votes[u].second_pick,
                         cycle.votes[u].third_pick}) => Score(cycle.votes, m) = 0

\* m2 wins with a second pick from each voter over m1 with one third pick,
\* while the votes give more points to an id nobody nominated
C10_Witness ==
  /\ winner = [movie_id |-> "m2", score |-> 4]
  /\ Candidates(cycle) = {"m1", "m2"}
  /\ RankedPoints(cycle, "m1") = 1
  /\ RankedPoints(cycle, "m3") = 6

\* ------------------------------------------------------------------------
\* Claims on the cycle document under concurrent clients (Spec, FairSpec)
\* ------------------------------------------------------------------------
\* C1: no step of a delayed check, a reveal timer or a participant write
\* moves current_status to an earlier phase
C1_StatusNeverRegresses ==
  [][Rank(doc'.current_status) >= Rank(doc.current_status)]_vars

\* C5: once winning_movie has been written, no later write replaces it with
\* a different value
C5_WinnerSetOnce ==
  [][doc.winning_movie # UndefinedWinner => doc'.winning_movie = doc.winning_movie]_vars

\* C9: once current_status is DASHBOARD_VIEW it stays DASHBOARD_VIEW
C9_DashboardTerminal ==
  [][doc.current_status = "DASHBOARD_VIEW" => doc'.current_status = "DASHBOARD_VIEW"]_vars

C6_DuplicateWriteIsNoOp ==
  [][\A c \in Clients : \A w \in pending[c] :
       /\ Check(c, w, TRUE) =>
            /\ doc'.current_status = w.current_status
            /\ w.hasWinner => doc'.winning_movie = w.winning_movie
            /\ UpdateDoc(doc', w) = doc'
       /\ Check(c, w, TRUE) /\ doc.current_status = w.current_status
            /\ (w.hasWinner => doc.winning_movie = w.winning_movie) => doc' = doc]_vars

\* client c2 wrote REVEAL with a winner and started its timer; client c1
\* still holds the same update, taken from the same snapshot
C6_Witness ==
  /\ doc.current_status = "REVEAL"
  /\ timers["c2"] > 0
  /\ RevealWrite(doc.winning_movie) \in pending["c1"]
  /\ doc.winning_movie.score > 0

\* entries of map field f of document d other than user u's
Others(d, f, u) == [x \in DOMAIN d[f] \ {u} |-> d[f][x]]

\* C7: makeDecision(u, d), submitNominations(u, l) and submitVote(u, v)
\* change only decisions[u], nominations[u] and votes[u] respectively
C7_WritesOnlyOwnEntry ==
  [][\A u \in Users : \A ok \in BOOLEAN :
       /\ \A d \in Answers[u] : makeDecision(u, d, ok) =>
            /\ Others(doc', "decisions", u) = Others(doc, "decisions", u)
            /\ doc' = [doc EXCEPT !.decisions = doc'.decisions]
       /\ \A l \in SelectedMovies(u) \cup {<<>>} : submitNominations(u, l, ok) =>
            /\ Others(doc', "nominations", u) = Others(doc, "nominations", u)
            /\ doc' = [doc EXCEPT !.nominations = doc'.nominations]
       /\ \A v \in AcceptedVotes(doc) : submitVote(u, v, ok) =>
            /\ Others(doc', "votes", u) = Others(doc, "votes", u)
            /\ doc' = [doc EXCEPT !.votes = doc'.votes]]_vars

\* every user has written a decision, and several a nomination and a vote
C7_Witness ==
  /\ DOMAIN doc.decisions = Users
  /\ Cardinality(DOMAIN doc.nominations) >= 2
  /\ Cardinality(DOMAIN doc.votes) >= 2

\* ------------------------------------------------------------------------
\* The REVEAL transition, the reveal screen and the dashboard on one
\* snapshot
\* ------------------------------------------------------------------------
\* updateCycleStatus(status): a partial update of current_status alone; the
\* updateDoc fails when the store refuses it or the document is missing, and
\* the catch block rethrows
updateCycleStatus(status, ok) ==
  /\ doc' = IF ok /\ doc.exists THEN UpdateDoc(doc, StatusWrite(status)) ELSE doc
  /\ outcome' = IF ok /\ doc.exists THEN Returned("updateCycleStatus")
                ELSE Threw("updateCycleStatus")
  /\ Notify
  /\ UNCHANGED <<pending, timers, timerLost, local>>

\* the vote records of up to two voters on two nominated movies
RevealVotes == {Vote("m1", "", ""), Vote("m1", "m2", ""), Vote("m2", "m1", "")}

\* the shared pools: each movie missing, or present with a runtime and a
\* streak below or at the boost threshold
Pools ==
  UNION {[D -> [runtime : {90, 120}, nomination_streak : {4, 5}]] : D \in SUBSET Movies}

\* cycles in GATHERING_VOTES with one yes-decision, nominations in either
\* order of the two movies and votes of up to two voters
WinnerCycles ==
  {[NewCycle EXCEPT !.current_status = "GATHERING_VOTES",
                    !.decisions = [u \in {"u1"} |-> TRUE],
                    !.nominations = n, !.votes = v] :
     n \in Maps({"u1", "u2"}, {<<>>, <<"m1">>, <<"m2">>, <<"m2", "m1">>}),
     v \in Maps({"u1", "u2"}, RevealVotes)}

WinnerInit ==
  /\ cycle \in WinnerCycles
  /\ doc = cycle
  /\ pending = [c \in Clients |-> {}]
  /\ timers = [c \in Clients |-> 0]
  /\ timerLost = FALSE
  /\ update = NotRun
  /\ winner = NoResult
  /\ sharedMovies \in Pools
  /\ shown = NotShown
  /\ schedule = NotScheduled
  /\ now = Evening
  /\ cycleId = NoCycleId
  /\ subscribed = NoCycleId
  /\ creating = [c \in Clients |-> {}]
  /\ outcome = NoCall
  /\ selectedMovies = <<>>
  /\ unseen = [c \in Clients |-> TRUE]

\* the 10 s timer of the client whose REVEAL write succeeded fires
RevealTimeout(ok) ==
  /\ update.current_status = "REVEAL"
  /\ doc # cycle
  /\ doc.current_status = "REVEAL"
  /\ doc' = IF ok THEN UpdateDoc(doc, StatusWrite("DASHBOARD_VIEW")) ELSE doc
  /\ Notify
  /\ UNCHANGED <<pending, timers, timerLost, pure>>

\* App renders RevealScreen for a document in REVEAL
ShowReveal ==
  /\ doc.current_status = "REVEAL"
  /\ shown = NotShown
  /\ shown' = displayWinner(doc, sharedMovies)
  /\ UNCHANGED <<store, pending, timers, timerLost, cycle, update, winner,
                 sharedMovies, schedule, selectedMovies, clock, creating, outcome>>

\* App renders DashboardScreen for a document in DASHBOARD_VIEW
ShowDashboard ==
  /\ doc.current_status = "DASHBOARD_VIEW"
  /\ schedule = NotScheduled
  /\ schedule' = calculateSchedule(doc, sharedMovies, now)
  /\ UNCHANGED <<store, pending, timers, timerLost, cycle, update, winner,
                 sharedMovies, shown, selectedMovies, clock, creating, outcome>>

WinnerNext ==
  \/ RunCheck
  \/ SendUpdate
  \/ \E ok \in BOOLEAN : RevealTimeout(ok)
  \/ \E s \in {"REVEAL", "DASHBOARD_VIEW"} : \E ok \in BOOLEAN :
       doc = cycle /\ update = NotRun /\ updateCycleStatus(s, ok)
  \/ ShowReveal
  \/ ShowDashboard

WinnerSpec == WinnerInit /\ [][WinnerNext]_vars

\* ------------------------------------------------------------------------
\* Claims on the recorded and the revealed winner (WinnerSpec)
\* ------------------------------------------------------------------------
\* the pick slots of all votes that name m
SlotsNaming(c, m) ==
  Cardinality({u \in DOMAIN c.votes : c.votes[u].top_pick = m})
  + Cardinality({u \in DOMAIN c.votes : c.votes[u].second_pick = m})
  + Cardinality({u \in DOMAIN c.votes : c.votes[u].third_pick = m})

\* the ranked points plus 1 per naming slot for a streak of 5 or more
BoostedScore(c, pool, m) ==
  RankedPoints(c, m)
  + (IF m \in DOMAIN pool /\ pool[m].nomination_streak >= 5 THEN SlotsNaming(c, m) ELSE 0)

\* a winner was recorded in the document
Recorded == doc.winning_movie \notin {UndefinedWinner, NullWinner}

\* no candidate is boosted and every candidate's record is in the pool
Plain(c, pool) ==
  \A m \in Candidates(c) : m \in DOMAIN pool /\ pool[m].nomination_streak < 5

\* the candidates with the highest ranked points
TopCandidates(c) ==
  {m \in Candidates(c) : \A x \in Candidates(c) : RankedPoints(c, x) <= RankedPoints(c, m)}

\* C11: the winner recorded at the REVEAL transition carries the boosted
\* score (ranked points plus 1 per naming slot when the streak is >= 5) and
\* no candidate has a higher boosted score
C11_RecordedWinnerIsBoosted ==
  Recorded =>
    /\ doc.winning_movie.score = BoostedScore(doc, sharedMovies, doc.winning_movie.movie_id)
    /\ \A m \in Candidates(doc) : BoostedScore(doc, sharedMovies, m) <= doc.winning_movie.score

\* C12: when several candidates share the highest score, the recorded
\* winner is the one with the shortest runtime, whatever the nomination
\* order (stated where no boost applies and every record is in the pool)
C12_TieBrokenByRuntime ==
  Recorded /\ Plain(doc, sharedMovies) =>
    \A m \in TopCandidates(doc) :
      sharedMovies[doc.winning_movie.movie_id].runtime <= sharedMovies[m].runtime

\* the movie ids in ascending order
IdOrder == <<"m1", "m2", "m3">>
LeastId(S) == IdOrder[CHOOSE i \in 1..Len(IdOrder) :
                        IdOrder[i] \in S /\ \A j \in 1..(i - 1) : IdOrder[j] \notin S]

\* C13: when the top candidates tie on score and runtime, the recorded and
\* the revealed winner are the tied candidate with the least id (stated
\* where no boost applies and every record is in the pool)
C13_FullTieBrokenById ==
  /\ Plain(doc, sharedMovies)
  /\ \A a, b \in TopCandidates(doc) : sharedMovies[a].runtime = sharedMovies[b].runtime
  => /\ Recorded => doc.winning_movie.movie_id = LeastId(TopCandidates(doc))
     /\ shown # NotShown /\ Candidates(doc) # {} => shown.id = LeastId(TopCandidates(doc))

\* C14: with a non-empty candidate set the reveal screen always yields a
\* candidate, and a candidate missing from the pool is yielded or recorded
\* as the winner only when no candidate is in the pool
C14_MissingRankedLast ==
  Candidates(doc) # {} =>
    /\ shown # NotShown =>
         /\ shown.id \in Candidates(doc)
         /\ shown.id \notin DOMAIN sharedMovies => Candidates(doc) \cap DOMAIN sharedMovies = {}
    /\ Recorded /\ doc.winning_movie.movie_id \notin DOMAIN sharedMovies =>
         Candidates(doc) \cap DOMAIN sharedMovies = {}

\* ------------------------------------------------------------------------
\* The winner calculations with the vote map visited in a given order
\* ------------------------------------------------------------------------
\* a vote's points replace the running total instead of adding to it
AddVote_overwrite(total, vote, m) ==
  IF VotePoints(vote, m) > 0 THEN VotePoints(vote, m) ELSE total

\* scores[m] = (scores[m] || 0) + points, for one vote record
AddVote(total, vote, m) == total + VotePoints(vote, m)

RECURSIVE ScoreIn(_, _, _)
\* scores[m] after Object.values(votes).forEach visited the voters in `order`
ScoreIn(votes, order, m) ==
  IF order = <<>> THEN 0
  ELSE AddVote(ScoreIn(votes, SubSeq(order, 1, Len(order) - 1), m),
               votes[order[Len(order)]], m)

RECURSIVE BoostIn(_, _, _)
\* the boost of m after the inner forEach visited the voters in `order`
BoostIn(votes, order, m) ==
  IF order = <<>> THEN 0
  ELSE BoostIn(votes, SubSeq(order, 1, Len(order) - 1), m)
       + BoostPoints(votes[order[Len(order)]], m)

\* calculateWinner with the votes visited in `order`
calculateWinnerBy(nominations, votes, order) ==
  LET ids == Unique(Flat(nominations, KeyOrder(nominations)))
  IN IF ids = <<>> THEN NullWinner
     ELSE LET best == CHOOSE i \in 1..Len(ids) :
                /\ \A j \in 1..Len(ids) : ScoreIn(votes, order, ids[j]) <= ScoreIn(votes, order, ids[i])
                /\ \A j \in 1..(i - 1) : ScoreIn(votes, order, ids[j]) < ScoreIn(votes, order, ids[i])
          IN [movie_id |-> ids[best], score |-> ScoreIn(votes, order, ids[best])]

\* RevealScreen.calculateWinner with the votes visited in `order`
RevealWinnerBy(nominations, votes, pool, order) ==
  LET found == SelectSeq(Unique(Flat(nominations, KeyOrder(nominations))),
                         LAMBDA m : Resolvable(pool, m))
      score(m) == ScoreIn(votes, order, m)
                    + (IF pool[m].nomination_streak >= 5 THEN BoostIn(votes, order, m) ELSE 0)
      before(a, b) == \/ score(a) > score(b)
                      \/ score(a) = score(b) /\ pool[a].runtime < pool[b].runtime
  IN IF found = <<>> THEN NoRevealWinner
     ELSE LET best == CHOOSE i \in 1..Len(found) :
                        /\ \A j \in 1..Len(found) : ~before(found[j], found[i])
                        /\ \A j \in 1..(i - 1) : before(found[i], found[j])
          IN [id |-> found[best], score |-> score(found[best]),
              resolved |-> TRUE, runtime |-> pool[found[best]].runtime]

\* the orders in which a vote map's entries can be visited
VoteOrders(votes) ==
  {o \in [1..Cardinality(DOMAIN votes) -> DOMAIN votes] :
     \A i, j \in DOMAIN o : i # j => o[i] # o[j]}

\* C15: whatever the order in which the vote map is visited, the winner
\* calculation of the REVEAL transition and the one of the reveal screen
\* yield the movie id and score they yielded, for every pool and streak
C15_VoteOrderIrrelevant ==
  /\ update.hasWinner =>
       \A o \in VoteOrders(cycle.votes) :
         calculateWinnerBy(cycle.nominations, cycle.votes, o) = update.winning_movie
  /\ shown # NotShown /\ shown.resolved =>
       \A o \in VoteOrders(doc.votes) :
         RevealWinnerBy(doc.nominations, doc.votes, sharedMovies, o) = shown

\* two voters with different records; the transition recorded m1 with 5
\* points and the reveal screen shows it with 7 after the boost
C15_Witness ==
  /\ DOMAIN doc.votes = {"u1", "u2"}
  /\ doc.votes["u1"] # doc.votes["u2"]
  /\ doc.winning_movie = [movie_id |-> "m1", score |-> 5]
  /\ shown.id = "m1" /\ shown.score = 7

\* C16: when every nominations list is empty, the winner calculation yields
\* null, the REVEAL transition records a null winning_movie and the
\* dashboard computes no schedule
C16_NoNominationsNoWinner ==
  (\A u \in DOMAIN cycle.nominations : cycle.nominations[u] = <<>>) =>
    /\ update.current_status = "REVEAL" => update = RevealWrite(NullWinner)
    /\ doc.winning_movie \in {UndefinedWinner, NullWinner}
    /\ update.hasWinner /\ doc.current_status = "REVEAL" /\ doc.winning_movie # UndefinedWinner =>
         doc = [cycle EXCEPT !.current_status = "REVEAL", !.winning_movie = NullWinner]
    /\ schedule # NotScheduled => schedule = NoSchedule

\* two users submitted empty lists, the transition recorded null and the
\* dashboard has no schedule
C16_Witness ==
  /\ DOMAIN cycle.nominations = {"u1", "u2"}
  /\ \A u \in DOMAIN cycle.nominations : cycle.nominations[u] = <<>>
  /\ cycle.votes # EmptyMap
  /\ doc.current_status = "DASHBOARD_VIEW"
  /\ doc.winning_movie = NullWinner
  /\ schedule = NoSchedule

\* ------------------------------------------------------------------------
\* The dashboard and the cycle id while the clock advances
\* ------------------------------------------------------------------------
\* the runtimes of the winning movie's record
Runtimes == {1, 39, 40, 41, 90, 120, 130, 200}

\* pools with the winning movie missing or present with one of the runtimes
DashboardPools ==
  {EmptyMap} \cup {[m \in {"m1"} |-> [runtime |-> r, nomination_streak |-> 0]] : r \in Runtimes}

\* documents in DASHBOARD_VIEW with a recorded winner and a finish_by time
DashboardDocs ==
  {[NewCycle EXCEPT !.current_status = "DASHBOARD_VIEW",
                    !.nominations = [u \in {"u1"} |-> <<"m1">>],
                    !.winning_movie = [movie_id |-> "m1", score |-> 3],
                    !.finish_by_time = f] : f \in DOMAIN ClockTimes}

\* the instants the clock passes: midnight, 03:59, 04:00, 11:59, noon and
\* 23:59 of every day after the first
Instants ==
  {d * 1440 + m : d \in 1..LastDay, m \in {0, 239, 240, 719, 720, 1439}}

ClockInit ==
  /\ doc \in DashboardDocs
  /\ cycle = doc
  /\ pending = [c \in Clients |-> {}]
  /\ timers = [c \in Clients |-> 0]
  /\ timerLost = FALSE
  /\ update = NotRun
  /\ winner = NoResult
  /\ sharedMovies \in DashboardPools
  /\ shown = NotShown
  /\ schedule = NotScheduled
  /\ now = 1440
  /\ cycleId = NoCycleId
  /\ subscribed = NoCycleId
  /\ creating = [c \in Clients |-> {}]
  /\ outcome = NoCall
  /\ selectedMovies = <<>>
  /\ unseen = [c \in Clients |-> TRUE]

\* time passes to the next instant; the dashboard's one-second interval
\* renders it again, which calls calculateSchedule() again
Tick ==
  /\ \E t \in Instants : t > now
  /\ now' = CHOOSE t \in Instants : t > now /\ \A x \in Instants : x > now => t <= x
  /\ schedule' = IF schedule = NotScheduled THEN schedule
                 ELSE calculateSchedule(doc, sharedMovies, now')
  /\ UNCHANGED <<store, pending, timers, timerLost, cycle, update, winner,
                 sharedMovies, shown, selectedMovies, cycleId, subscribed, creating, outcome>>

\* a hook mounts or an operation starts: getCurrentCycleId()
GetCycleId ==
  /\ cycleId # getCurrentCycleId(now)
  /\ cycleId' = getCurrentCycleId(now)
  /\ UNCHANGED <<store, pending, timers, timerLost, cycle, update, winner, screens, now, subscribed,
                 creating, outcome>>

ClockNext == Tick \/ ShowDashboard \/ GetCycleId

ClockSpec == ClockInit /\ [][ClockNext]_vars

\* ------------------------------------------------------------------------
\* Claims on calculateSchedule and getCurrentCycleId (ClockSpec)
\* ------------------------------------------------------------------------
Scheduled == schedule \notin {NotScheduled, NoSchedule}

\* C17: for a runtime r > 0 the schedule has floor(r / 40) breaks, 15 break
\* minutes per break and a start r + break minutes before the finish; r is
\* the runtime of the winner's record; r = 130 gives 3 breaks, 45 minutes
\* and a start 175 minutes before the finish
C17_BreaksAndStart ==
  Scheduled =>
    LET r == schedule.totalRuntime
        b == schedule.totalBreaks
    IN /\ "m1" \in DOMAIN sharedMovies => r = sharedMovies["m1"].runtime
       /\ r > 0
       /\ 40 * b <= r /\ r < 40 * (b + 1)
       /\ schedule.totalBreakTime = 15 * b
       /\ schedule.startTime = schedule.finishTime - (r + schedule.totalBreakTime)
       /\ r = 130 => /\ b = 3 /\ schedule.totalBreakTime = 45
                     /\ schedule.finishTime - schedule.startTime = 175

\* a movie of 130 minutes finishing at 03:30, starting at 00:35
C17_Witness ==
  /\ Scheduled
  /\ schedule.totalRuntime = 130 /\ schedule.totalBreaks = 3
  /\ doc.finish_by_time = "03:30"
  /\ schedule.finishTime - schedule.startTime = 175
  /\ DateOf(schedule.startTime).hours = 0 /\ DateOf(schedule.startTime).minutes = 35

\* C18: the finish is at the finish_by clock time, on the calendar day after
\* the day of the evaluation exactly when finish_by's hour is before 12, and
\* on the day of the evaluation otherwise
C18_FinishDay ==
  Scheduled =>
    LET hm == ClockTimes[doc.finish_by_time]
        today == now \div 1440
        finish == DateOf(schedule.finishTime)
    IN /\ finish.hours = hm[1] /\ finish.minutes = hm[2]
       /\ schedule.finishTime \div 1440 = (IF hm[1] < 12 THEN today + 1 ELSE today)
       /\ hm[1] < 12 <=> [year |-> finish.year, month |-> finish.month, date |-> finish.date]
                           = NextDay(CalendarOf(today))
       /\ hm[1] >= 12 <=> [year |-> finish.year, month |-> finish.month, date |-> finish.date]
                            = CalendarOf(today)

\* evaluated on 31 December with finish_by 03:30: the finish is 03:30 on
\* 1 January
C18_Witness ==
  /\ Scheduled
  /\ doc.finish_by_time = "03:30"
  /\ DateOf(now).month = 12 /\ DateOf(now).date = 31 /\ DateOf(now).hours = 23
  /\ DateOf(schedule.finishTime) =
       [year |-> 2026, month |-> 1, date |-> 1, hours |-> 3, minutes |-> 30]

\* C19: getCurrentCycleId returns the date of the previous calendar day when
\* the local hour is before 4 and the date of the current day otherwise, so
\* every instant from 04:00 of day D to 03:59 of day D + 1 gives the key D
C19_CycleIdDayBoundary ==
  [][cycleId' # cycleId =>
       /\ cycleId' = format(DateOf(IF (now % 1440) \div 60 < 4 THEN now - 1440 ELSE now))
       /\ \A D \in 0..LastDay :
            D * 1440 + 240 <= now /\ now <= (D + 1) * 1440 + 239 =>
              cycleId' = [yyyy |-> CalendarOf(D).year, MM |-> CalendarOf(D).month,
                          dd |-> CalendarOf(D).date]]_vars

\* at 03:59 on 1 January 2026 the cycle id is 2025-12-31
C19_Witness ==
  /\ DateOf(now) = [year |-> 2026, month |-> 1, date |-> 1, hours |-> 3, minutes |-> 59]
  /\ cycleId = [yyyy |-> 2025, MM |-> 12, dd |-> 31]

\* ------------------------------------------------------------------------
\* Creation and reset of the cycle document (useDailyCycle.ts 54-68, 193-218)
\* ------------------------------------------------------------------------
\* client c's snapshot handler is handed a snapshot without a document and
\* calls setDoc(cycleRef, newCycle); the call reaches the store later
SnapshotAbsent(c) ==
  /\ ~doc.exists
  /\ "lazy" \notin creating[c]
  /\ creating' = [creating EXCEPT ![c] = @ \cup {"lazy"}]
  /\ UNCHANGED <<store, pending, timers, timerLost, cycle, update, winner, screens, clock,
                 outcome>>

\* a setDoc that keeps the fields of a document already there
CreateWrite_merge(c, k, ok) ==
  /\ k \in creating[c]
  /\ creating' = [creating EXCEPT ![c] = @ \ {k}]
  /\ doc' = IF ok /\ ~doc.exists THEN NewCycle ELSE doc
  /\ outcome' = IF k # "reset" THEN outcome
                ELSE IF ok THEN Returned("resetDailyCycle") ELSE Threw("resetDailyCycle")
  /\ Notify
  /\ UNCHANGED <<pending, timers, timerLost, cycle, update, winner, screens, clock>>

\* a setDoc that only puts current_status back and keeps the other fields
CreateWrite_statusOnly(c, k, ok) ==
  /\ k \in creating[c]
  /\ creating' = [creating EXCEPT ![c] = @ \ {k}]
  /\ doc' = IF ~ok THEN doc
            ELSE IF doc.exists THEN [doc EXCEPT !.current_status = "WAITING_FOR_DECISIONS"]
            ELSE NewCycle
  /\ outcome' = IF k # "reset" THEN outcome
                ELSE IF ok THEN Returned("resetDailyCycle") ELSE Threw("resetDailyCycle")
  /\ Notify
  /\ UNCHANGED <<pending, timers, timerLost, cycle, update, winner, screens, clock>>

\* the setDoc(cycleRef, newCycle) of client c (k: sent by the snapshot
\* handler or by resetDailyCycle) reaches the store: it replaces whatever
\* the document holds.  With it a resetDailyCycle call ends: it resolves, or
\* its catch block rethrows the failure
CreateWrite(c, k, ok) ==
  /\ k \in creating[c]
  /\ creating' = [creating EXCEPT ![c] = @ \ {k}]
  /\ doc' = IF ok THEN NewCycle ELSE doc
  /\ outcome' = IF k # "reset" THEN outcome
                ELSE IF ok THEN Returned("resetDailyCycle") ELSE Threw("resetDailyCycle")
  /\ Notify
  /\ UNCHANGED <<pending, timers, timerLost, cycle, update, winner, screens, clock>>

\* resetDailyCycle on client c: deleteDoc, and when it succeeded the setDoc
\* of a fresh cycle is sent; a failed deleteDoc is rethrown to the caller
resetDailyCycle(c, ok) ==
  /\ "reset" \notin creating[c]
  /\ doc' = IF ok THEN NoDoc ELSE doc
  /\ creating' = IF ok THEN [creating EXCEPT ![c] = @ \cup {"reset"}] ELSE creating
  /\ outcome' = IF ok THEN outcome ELSE Threw("resetDailyCycle")
  /\ Notify
  /\ UNCHANGED <<pending, timers, timerLost, cycle, update, winner, screens, clock>>

\* a new day: no document under the cycle id yet
LifeInit ==
  /\ doc = NoDoc
  /\ pending = [c \in Clients |-> {}]
  /\ timers = [c \in Clients |-> 0]
  /\ timerLost = FALSE
  /\ cycle = NoDoc
  /\ update = NotRun
  /\ winner = NoResult
  /\ Idle

\* every client subscribes and may create the document; client c1 is the
\* one that resets, client c2 the one whose page runs the delayed checks
LifeNext ==
  \/ \E c \in Clients : SnapshotAbsent(c)
  \/ \E c \in Clients : \E k \in creating[c] : \E ok \in BOOLEAN : CreateWrite(c, k, ok)
  \/ \E ok \in BOOLEAN : resetDailyCycle("c1", ok)
  \/ OnSnapshot("c2")
  \/ \E w \in pending["c2"] : \E ok \in BOOLEAN : Check("c2", w, ok)
  \/ \E ok \in BOOLEAN : TimerFire("c2", ok)
  \/ \E u \in Users : \E d \in Answers[u] : \E ok \in BOOLEAN : makeDecision(u, d, ok)
  \/ \E u \in Users : \E l \in SelectedMovies(u) \cup {<<>>} : \E ok \in BOOLEAN :
       submitNominations(u, l, ok)
  \/ \E u \in Users : \E v \in AcceptedVotes(doc) : \E ok \in BOOLEAN : submitVote(u, v, ok)

LifeSpec == LifeInit /\ [][LifeNext]_vars

\* ------------------------------------------------------------------------
\* Claims on the creation of the cycle document (LifeSpec)
\* ------------------------------------------------------------------------
\* C20: a subscriber handed a snapshot without the document sends a creation
\* whose write leaves the document in WAITING_FOR_DECISIONS with empty
\* decisions, nominations and votes, no winning_movie and finish_by 03:30;
\* a document that comes into existence is never in any other state
C20_CreatedWaiting ==
  [][/\ \A c \in Clients :
          /\ ~doc.exists /\ "lazy" \notin creating[c] => ENABLED SnapshotAbsent(c)
          /\ SnapshotAbsent(c) => "lazy" \in creating'[c] /\ doc' = doc
          /\ "lazy" \in creating[c] /\ CreateWrite(c, "lazy", TRUE) =>
               /\ doc'.exists
               /\ doc'.current_status = "WAITING_FOR_DECISIONS"
               /\ doc'.decisions = EmptyMap /\ doc'.nominations = EmptyMap
               /\ doc'.votes = EmptyMap
               /\ doc'.winning_movie = UndefinedWinner
               /\ doc'.finish_by_time = "03:30"
     /\ ~doc.exists /\ doc'.exists =>
          /\ doc'.current_status = "WAITING_FOR_DECISIONS"
          /\ doc'.decisions = EmptyMap /\ doc'.nominations = EmptyMap
          /\ doc'.votes = EmptyMap
          /\ doc'.winning_movie = UndefinedWinner]_vars

\* client c1's creation made the document, in which a user then decided,
\* while client c2's creation from the same absent snapshot is still under
\* way
C20_Witness ==
  /\ doc.exists
  /\ doc.current_status = "WAITING_FOR_DECISIONS"
  /\ doc.decisions # EmptyMap
  /\ creating["c1"] = {}
  /\ creating["c2"] = {"lazy"}

\* ------------------------------------------------------------------------
\* Claims on resetDailyCycle (LifeSpec)
\* ------------------------------------------------------------------------
\* C21: on the step with which a resetDailyCycle call resolves (its setDoc
\* reached the store and succeeded) the document exists in
\* WAITING_FOR_DECISIONS with empty decisions, nominations and votes and no
\* winning_movie, whatever it held before
C21_ResetLeavesFreshCycle ==
  [][(\E c \in Clients :
        /\ "reset" \in creating[c]
        /\ "reset" \notin creating'[c]
        /\ outcome' = Returned("resetDailyCycle"))
     => /\ doc'.exists
        /\ doc'.current_status = "WAITING_FOR_DECISIONS"
        /\ doc'.decisions = EmptyMap
        /\ doc'.nominations = EmptyMap
        /\ doc'.votes = EmptyMap
        /\ doc'.winning_movie = UndefinedWinner]_vars

\* a reset has just resolved on a cycle that had reached REVEAL: the reveal
\* timer of that cycle is still running
C21_Witness ==
  /\ outcome = Returned("resetDailyCycle")
  /\ doc.exists
  /\ doc.decisions = EmptyMap
  /\ timers["c2"] > 0

\* ------------------------------------------------------------------------
\* The voting screen (VotingScreen.tsx 66-91)
\* ------------------------------------------------------------------------
\* the user presses Submit Vote with the form holding `votes`: the handler
\* returns early with a toast, or calls submitVote(user.id, votes)
handleSubmitVote(userId, votes, ok) ==
  /\ votes \in FormStates(doc)
  /\ IF RefusesVote(doc, votes)
     THEN /\ doc.exists
          /\ doc.current_status = "GATHERING_VOTES"
          /\ userId \notin DOMAIN doc.votes
          /\ nominatedMovies(doc) # {}
          /\ outcome' = Refused("handleSubmitVote",
                                IF Len(Picks(votes)) < requiredPicks(doc)
                                THEN "Please select"
                                ELSE "You cannot vote for the same movie multiple times")
          /\ UNCHANGED <<store, pending, timers, timerLost, local>>
     ELSE submitVote(userId, votes, ok)

\* cycles in GATHERING_VOTES with one, two or three nominated movies and no
\* vote yet
VoteCycles ==
  {[NewCycle EXCEPT !.current_status = "GATHERING_VOTES",
                    !.decisions = [u \in {"u1", "u2"} |-> TRUE],
                    !.nominations = ("u1" :> l) @@ ("u2" :> <<>>)] :
     l \in {<<"m1">>, <<"m1", "m2">>, <<"m1", "m2", "m3">>}}

VoteInit ==
  /\ doc \in VoteCycles
  /\ pending = [c \in Clients |-> {}]
  /\ timers = [c \in Clients |-> 0]
  /\ timerLost = FALSE
  /\ cycle = doc
  /\ update = NotRun
  /\ winner = NoResult
  /\ Idle

\* the users who said yes are the ones who vote
VoteNext ==
  \/ \E u \in DOMAIN doc.decisions : \E v \in FormStates(doc) : \E ok \in BOOLEAN :
       handleSubmitVote(u, v, ok)
  \/ \E c \in Clients : OnSnapshot(c)
  \/ \E c \in Clients : \E w \in pending[c] : \E ok \in BOOLEAN : Check(c, w, ok)
  \/ \E c \in Clients : \E ok \in BOOLEAN : TimerFire(c, ok)

VoteSpec == VoteInit /\ [][VoteNext]_vars

\* ------------------------------------------------------------------------
\* Claims on the voting screen (VoteSpec)
\* ------------------------------------------------------------------------
\* the non-empty picks of v are pairwise distinct
DistinctPicks(v) ==
  /\ v.top_pick # "" /\ v.second_pick # "" => v.top_pick # v.second_pick
  /\ v.top_pick # "" /\ v.third_pick # "" => v.top_pick # v.third_pick
  /\ v.second_pick # "" /\ v.third_pick # "" => v.second_pick # v.third_pick

\* every form the three selects can hold for up to three nominated movies
AllForms == UNION {FormStates(c) : c \in VoteCycles}

\* the forms that name a movie in two slots
DuplicateForms == {v \in AllForms : ~DistinctPicks(v)}

\* C22: a Submit Vote on a form whose non-empty picks are not pairwise
\* distinct is refused and leaves the document as it was, and every vote
\* record a step leaves in the document (which starts without votes) has
\* pairwise distinct non-empty picks
C22_DuplicatePicksRefused ==
  [][/\ \A u \in DOMAIN doc'.votes : DistinctPicks(doc'.votes[u])
     /\ \A u \in DOMAIN doc.decisions : \A v \in DuplicateForms :
          handleSubmitVote(u, v, TRUE) =>
            doc' = doc /\ outcome'.op = "handleSubmitVote"]_vars

\* a form naming one movie twice was just refused in a cycle with three
\* nominated movies in which another user's three picks are stored
C22_Witness ==
  /\ outcome = Refused("handleSubmitVote", "You cannot vote for the same movie multiple times")
  /\ \E u \in DOMAIN doc.votes : doc.votes[u].third_pick # ""

\* ------------------------------------------------------------------------
\* The nomination screen (NominationScreen: handleMovieSelect,
\* handleSubmitNominations, handleNoNominations)
\* ------------------------------------------------------------------------
MAX_NOMINATIONS_PER_USER == 3

\* `movies`: the library of the user on the screen.  addMovieToLibrary
\* stores every movie with nomination_streak 0, and updateNominationStreak,
\* the one write to the field, has no caller
UserLibrary ==
  [m \in {"m1", "m2", "m3", "m4"} |->
     [runtime |-> IF m = "m1" THEN 120 ELSE 90, nomination_streak |-> 0]]

\* prev.includes(movieId)
Includes(seq, x) == \E i \in 1..Len(seq) : seq[i] = x

\* the form is rendered: the cycle gathers nominations and the user has
\* not submitted (hasSubmitted)
NominationForm(userId) ==
  /\ doc.exists
  /\ doc.current_status = "GATHERING_NOMINATIONS"
  /\ userId \notin DOMAIN doc.nominations

\* a handler that compares with <= instead of <
handleMovieSelect_atMost(userId, movieId) ==
  /\ NominationForm(userId)
  /\ IF Includes(selectedMovies, movieId)
     THEN /\ selectedMovies' = SelectSeq(selectedMovies, LAMBDA id : id # movieId)
          /\ UNCHANGED outcome
     ELSE IF Len(selectedMovies) <= MAX_NOMINATIONS_PER_USER
     THEN /\ selectedMovies' = Append(selectedMovies, movieId)
          /\ UNCHANGED outcome
     ELSE /\ outcome' = Refused("handleMovieSelect", "You can only select up to")
          /\ UNCHANGED selectedMovies
  /\ UNCHANGED <<store, pending, timers, timerLost, cycle, update, winner,
                 sharedMovies, shown, schedule, clock, creating>>

\* the user clicks a movie of the library: it leaves the selection, joins
\* it when fewer than MAX_NOMINATIONS_PER_USER are selected, or a toast
\* refuses it
handleMovieSelect(userId, movieId) ==
  /\ NominationForm(userId)
  /\ IF Includes(selectedMovies, movieId)
     THEN /\ selectedMovies' = SelectSeq(selectedMovies, LAMBDA id : id # movieId)
          /\ UNCHANGED outcome
     ELSE IF Len(selectedMovies) < MAX_NOMINATIONS_PER_USER
     THEN /\ selectedMovies' = Append(selectedMovies, movieId)
          /\ UNCHANGED outcome
     ELSE /\ outcome' = Refused("handleMovieSelect", "You can only select up to")
          /\ UNCHANGED selectedMovies
  /\ UNCHANGED <<store, pending, timers, timerLost, cycle, update, winner,
                 sharedMovies, shown, schedule, clock, creating>>

\* shareMovie(movie, userId): the library movie is copied into the shared
\* pool (copy-on-nominate)
shareMovie(pool, movieId) == Put(pool, movieId, UserLibrary[movieId])

RECURSIVE ShareAll(_, _)
\* for (const movieId of ids) { movie = movies.find(...); if (movie) await
\* shareMovie(movie, user.id) }
ShareAll(pool, ids) ==
  IF ids = <<>> THEN pool
  ELSE ShareAll(IF Head(ids) \in DOMAIN UserLibrary THEN shareMovie(pool, Head(ids)) ELSE pool,
                Tail(ids))

\* the user presses Submit Nominations (disabled on an empty selection):
\* the selected movies are shared one by one, then
\* submitNominations(user.id, selectedMovies) is called; `shared` of the
\* shareMovie calls succeed, and a failed one ends the handler in its catch
handleSubmitNominations(userId, shared, ok) ==
  /\ NominationForm(userId)
  /\ selectedMovies # <<>>
  /\ shared \in 0..Len(selectedMovies)
  /\ sharedMovies' = ShareAll(sharedMovies, SubSeq(selectedMovies, 1, shared))
  /\ IF shared < Len(selectedMovies)
     THEN /\ outcome' = Threw("shareMovie")
          /\ UNCHANGED doc
     ELSE /\ doc' = IF ok THEN UpdateNominations(doc, userId, selectedMovies) ELSE doc
          /\ outcome' = IF ok THEN Returned("submitNominations")
                        ELSE Threw("submitNominations")
  /\ Notify
  /\ UNCHANGED <<pending, timers, timerLost, cycle, update, winner,
                 shown, schedule, selectedMovies, clock, creating>>

\* the user presses the no-nominations button
handleNoNominations(userId, ok) ==
  /\ NominationForm(userId)
  /\ submitNominations(userId, <<>>, ok)

\* a cycle that gathers nominations: two users said yes, one no
NominateInit ==
  /\ doc = [NewCycle EXCEPT !.current_status = "GATHERING_NOMINATIONS",
                            !.decisions = [u \in Users |-> u # "u3"]]
  /\ pending = [c \in Clients |-> {}]
  /\ timers = [c \in Clients |-> 0]
  /\ timerLost = FALSE
  /\ cycle = doc
  /\ update = NotRun
  /\ winner = NoResult
  /\ sharedMovies = EmptyMap
  /\ shown = NotShown
  /\ schedule = NotScheduled
  /\ selectedMovies = <<>>
  /\ unseen = [c \in Clients |-> TRUE]
  /\ now = Evening
  /\ cycleId = NoCycleId
  /\ subscribed = NoCycleId
  /\ creating = [c \in Clients |-> {}]
  /\ outcome = NoCall

\* user u1 works on the nomination screen, user u2 has nothing to nominate
NominateNext ==
  \/ \E m \in DOMAIN UserLibrary : handleMovieSelect("u1", m)
  \/ \E n \in 0..MAX_NOMINATIONS_PER_USER : \E ok \in BOOLEAN :
       handleSubmitNominations("u1", n, ok)
  \/ \E u \in {"u1", "u2"} : \E ok \in BOOLEAN : handleNoNominations(u, ok)
  \/ \E c \in Clients : OnSnapshot(c)
  \/ \E c \in Clients : \E w \in pending[c] : \E ok \in BOOLEAN : Check(c, w, ok)

NominateSpec == NominateInit /\ [][NominateNext]_vars

\* ------------------------------------------------------------------------
\* Claims on the nomination screen (NominateSpec)
\* ------------------------------------------------------------------------
\* C23: the selection never holds more than MAX_NOMINATIONS_PER_USER ids
\* nor an id twice, and no nominations list in the document is longer than
\* MAX_NOMINATIONS_PER_USER
C23_SelectionBounded ==
  /\ Len(selectedMovies) <= MAX_NOMINATIONS_PER_USER
  /\ \A i, j \in 1..Len(selectedMovies) : selectedMovies[i] = selectedMovies[j] => i = j
  /\ \A u \in DOMAIN doc.nominations : Len(doc.nominations[u]) <= MAX_NOMINATIONS_PER_USER

\* with three movies selected a click on a fourth was refused
C23_Witness ==
  /\ Len(selectedMovies) = MAX_NOMINATIONS_PER_USER
  /\ outcome = Refused("handleMovieSelect", "You can only select up to")

\* C24: a successful Submit Nominations leaves every selected library movie
\* with a nomination_streak one higher than it had (in the pool if it was
\* shared before, in the library otherwise)
C24_NominationIncrementsStreak ==
  [][\A n \in 0..MAX_NOMINATIONS_PER_USER :
       handleSubmitNominations("u1", n, TRUE) /\ "u1" \in DOMAIN doc'.nominations =>
         \A m \in SeqToSet(selectedMovies) :
           sharedMovies'[m].nomination_streak =
             (IF m \in DOMAIN sharedMovies THEN sharedMovies[m].nomination_streak
              ELSE UserLibrary[m].nomination_streak) + 1]_vars

\* ------------------------------------------------------------------------
\* Claims on failed writes (LifeSpec)
\* ------------------------------------------------------------------------
\* C25: a delayed check whose transition write fails (the store refuses it
\* or the document is gone) resolves without raising, leaves the document
\* as it was and starts no reveal timer
C25_FailedTransitionSwallowed ==
  [][\A c \in Clients : \A w \in pending[c] : \A ok \in BOOLEAN :
       Check(c, w, ok) /\ ~(ok /\ doc.exists) =>
         /\ outcome' = Returned("checkAndAdvanceStatus")
         /\ doc' = doc
         /\ timers' = timers]_vars

\* the REVEAL write of client c2's check has failed: the cycle still
\* gathers votes although all votes are in, and no timer runs
C25_Witness ==
  /\ outcome = Returned("checkAndAdvanceStatus")
  /\ doc.exists
  /\ doc.current_status = "GATHERING_VOTES"
  /\ checkAndAdvanceStatus(doc).current_status = "REVEAL"
  /\ pending["c2"] = {}
  /\ timers["c2"] = 0

\* ------------------------------------------------------------------------
\* The listeners alone on a cycle whose advance condition holds: no
\* participant writes any more
\* ------------------------------------------------------------------------
\* cycles of two yes-deciders and one no-decider in which the check of the
\* status sends a transition
RetryCycles ==
  {c \in {[NewCycle EXCEPT !.current_status = s,
                           !.decisions = [u \in Users |-> u # "u3"],
                           !.nominations = n, !.votes = v] :
            s \in Statuses,
            n \in Maps({"u1", "u2"}, {<<>>, <<"m1">>}),
            v \in Maps({"u1", "u2"}, {Vote("m1", "", "")})} :
     checkAndAdvanceStatus(c) # NoWrite}

\* every subscriber has the initial snapshot of its listener outstanding
RetryInit ==
  /\ doc \in RetryCycles
  /\ pending = [c \in Clients |-> {}]
  /\ timers = [c \in Clients |-> 0]
  /\ timerLost = FALSE
  /\ cycle = doc
  /\ update = NotRun
  /\ winner = NoResult
  /\ Idle

\* snapshots (also of a listener subscribed anew, at any time), delayed
\* checks and reveal timers
RetryNext ==
  \/ \E c \in Clients : OnSnapshot(c)
  \/ \E c \in Clients : \E w \in pending[c] : \E ok \in BOOLEAN : Check(c, w, ok)
  \/ \E c \in Clients : \E ok \in BOOLEAN : TimerFire(c, ok)

\* the store delivers an outstanding change notification, a timeout that is
\* due runs, and writes do not fail for ever
RetrySpec ==
  /\ RetryInit
  /\ [][RetryNext]_vars
  /\ \A c \in Clients : WF_vars(unseen[c] /\ OnSnapshot(c))
  /\ \A c \in Clients : WF_vars(\E w \in pending[c] : \E ok \in BOOLEAN : Check(c, w, ok))
  /\ \A c \in Clients : SF_vars(\E w \in pending[c] : Check(c, w, TRUE))
  /\ \A c \in Clients : WF_vars(\E ok \in BOOLEAN : TimerFire(c, ok))

\* ------------------------------------------------------------------------
\* Claims on the retry of a failed transition (RetrySpec)
\* ------------------------------------------------------------------------
\* the transition out of status s is due: the check of the document sends it
Due(s) ==
  /\ doc.exists
  /\ doc.current_status = s
  /\ checkAndAdvanceStatus(doc) # NoWrite

CallInit ==
  /\ doc \in {NewCycle, NoDoc}
  /\ pending = [c \in Clients |-> {}]
  /\ timers = [c \in Clients |-> 0]
  /\ timerLost = FALSE
  /\ cycle = doc
  /\ update = NotRun
  /\ winner = NoResult
  /\ Idle

CallNext ==
  \/ \E u \in Users : \E d \in Answers[u] : \E ok \in BOOLEAN : makeDecision(u, d, ok)
  \/ \E u \in Users : \E l \in SelectedMovies(u) \cup {<<>>} : \E ok \in BOOLEAN :
       submitNominations(u, l, ok)
  \/ \E u \in Users : \E v \in AcceptedVotes(doc) : \E ok \in BOOLEAN : submitVote(u, v, ok)
  \/ \E s \in Statuses : \E ok \in BOOLEAN : updateCycleStatus(s, ok)

CallSpec == CallInit /\ [][CallNext]_vars

\* ------------------------------------------------------------------------
\* Claims on the hook's operations (CallSpec)
\* ------------------------------------------------------------------------
\* C27: a makeDecision, submitNominations, submitVote or updateCycleStatus
\* whose store write fails throws to its caller and leaves the document as
\* it was
C27_FailedWriteRethrown ==
  [][/\ \A u \in Users : \A d \in BOOLEAN :
          makeDecision(u, d, FALSE) => doc' = doc /\ outcome' = Threw("makeDecision")
     /\ \A u \in Users : \A l \in SelectedMovies(u) \cup {<<>>} :
          submitNominations(u, l, FALSE) =>
            doc' = doc /\ outcome' = Threw("submitNominations")
     /\ \A u \in Users : \A v \in AcceptedVotes(doc) :
          submitVote(u, v, FALSE) => doc' = doc /\ outcome' = Threw("submitVote")
     /\ \A s \in Statuses : \A ok \in BOOLEAN :
          updateCycleStatus(s, ok) /\ ~(ok /\ doc.exists) =>
            doc' = doc /\ outcome' = Threw("updateCycleStatus")]_vars

\* the submitVote of the second voter has just thrown: the document holds
\* the first voter's record only
C27_Witness ==
  /\ outcome = Threw("submitVote")
  /\ doc.exists
  /\ doc.current_status = "GATHERING_VOTES"
  /\ Cardinality(DOMAIN doc.votes) = 1

\* ------------------------------------------------------------------------
\* Claims on the winner recorded under concurrent writes (Spec)
\* ------------------------------------------------------------------------
\* C28: in the step that turns current_status into REVEAL, the winning_movie
\* written is the winner of the nominations and votes the document holds
\* after that step
C28_WinnerOfDocumentAtReveal ==
  [][(doc.exists /\ doc.current_status # "REVEAL" /\ doc'.current_status = "REVEAL")
       => doc'.winning_movie = calculateWinner(doc')]_vars

\* ------------------------------------------------------------------------
\* Claims on the two winner calculations (WinnerSpec)
\* ------------------------------------------------------------------------
\* C29: the winner the reveal screen displays is the recorded winning_movie,
\* id and score, and the dashboard schedules that same movie
C29_CalculationsAgree ==
  /\ (Recorded /\ shown # NotShown) =>
       /\ shown.id = doc.winning_movie.movie_id
       /\ shown.score = doc.winning_movie.score
  /\ (Recorded /\ schedule # NotScheduled) =>
       schedule.movie_id = doc.winning_movie.movie_id
  /\ (shown # NotShown /\ schedule \notin {NotScheduled, NoSchedule}) =>
       schedule.movie_id = shown.id

\* ------------------------------------------------------------------------
\* Claims on checks and timers that outlive a reset (LifeSpec)
\* ------------------------------------------------------------------------
\* C30: the fresh cycle that resetDailyCycle has just written, which holds
\* no decision, keeps current_status WAITING_FOR_DECISIONS and no
\* winning_movie in the next step, whichever client takes it
C30_ResetCycleNotAdvancedByOldWork ==
  [][(outcome = Returned("resetDailyCycle") /\ doc = NewCycle /\ doc'.exists)
       => /\ doc'.current_status = "WAITING_FOR_DECISIONS"
          /\ doc'.winning_movie = UndefinedWinner]_vars

\* C31: in every step that takes an existing document to an existing
\* document (every step but the deleteDoc of resetDailyCycle) each user who
\* has a decision, a nominations entry or a vote in it still has one
C31_EntriesKept ==
  [][(doc.exists /\ doc'.exists)
       => /\ DOMAIN doc.decisions \subseteq DOMAIN doc'.decisions
          /\ DOMAIN doc.nominations \subseteq DOMAIN doc'.nominations
          /\ DOMAIN doc.votes \subseteq DOMAIN doc'.votes]_vars

\* ------------------------------------------------------------------------
\* Claims on who has submitted when a phase closes (Spec)
\* ------------------------------------------------------------------------
\* C32: in the step that takes current_status from GATHERING_VOTES to
\* REVEAL every user whose decision is true has a vote record
C32_RevealAfterEveryYesVoted ==
  [][(doc.current_status = "GATHERING_VOTES" /\ doc'.current_status = "REVEAL")
       => yesDecisions(doc') \subseteq DOMAIN doc'.votes]_vars

\* C33: in the step that takes current_status from GATHERING_NOMINATIONS to
\* GATHERING_VOTES every user whose decision is true has a nominations entry
C33_VotingAfterEveryYesNominated ==
  [][(doc.current_status = "GATHERING_NOMINATIONS" /\ doc'.current_status = "GATHERING_VOTES")
       => yesDecisions(doc') \subseteq DOMAIN doc'.nominations]_vars

\* ------------------------------------------------------------------------
\* One client that stays open while the clock advances (useDailyCycle.ts
\* 26-30, 181-254)
\* ------------------------------------------------------------------------
\* the last instant of the open page, in minutes: noon of the day after the
\* mount
Closing == 3600

\* the effect mounted in the evening: the listener is subscribed under the
\* cycle id of that instant, and doc is the document under that id
DayInit ==
  /\ doc = NewCycle
  /\ pending = [c \in Clients |-> {}]
  /\ timers = [c \in Clients |-> 0]
  /\ timerLost = FALSE
  /\ cycle = doc
  /\ update = NotRun
  /\ winner = NoResult
  /\ sharedMovies = LibraryPool
  /\ shown = NotShown
  /\ schedule = NotScheduled
  /\ now = Evening
  /\ cycleId = NoCycleId
  /\ subscribed = getCurrentCycleId(now)
  /\ creating = [c \in Clients |-> {}]
  /\ outcome = NoCall
  /\ selectedMovies = <<>>
  /\ unseen = [c \in Clients |-> TRUE]

\* an operation of the hook computes getCurrentCycleId() when it is called
\* and sends its write to the document under that id; `written` is the
\* subscribed document after the write, which it becomes only when the write
\* went to it.  ok: the store accepted the write under the computed id
WriteUnderCurrentId(op, written, ok) ==
  /\ cycleId' = getCurrentCycleId(now)
  /\ doc' = IF ok /\ cycleId' = subscribed THEN written ELSE doc
  /\ outcome' = IF ok THEN Returned(op) ELSE Threw(op)
  /\ Notify
  /\ UNCHANGED <<pending, timers, timerLost, cycle, update, winner, screens, now,
                 subscribed, creating>>

\* the page shows the screen of the subscribed document's current_status;
\* its operations are called at any instant until the page closes
DayNext ==
  \/ now < Closing /\ Tick
  \/ \E u \in Users : \E d \in Answers[u] : \E ok \in BOOLEAN :
       /\ doc.exists /\ doc.current_status = "WAITING_FOR_DECISIONS"
       /\ WriteUnderCurrentId("makeDecision", UpdateDecision(doc, u, d), ok)
  \/ \E u \in Users : \E l \in SelectedMovies(u) \cup {<<>>} : \E ok \in BOOLEAN :
       /\ doc.exists /\ doc.current_status = "GATHERING_NOMINATIONS"
       /\ u \notin DOMAIN doc.nominations
       /\ WriteUnderCurrentId("submitNominations", UpdateNominations(doc, u, l), ok)
  \/ \E u \in Users : \E v \in AcceptedVotes(doc) : \E ok \in BOOLEAN :
       /\ doc.exists /\ doc.current_status = "GATHERING_VOTES"
       /\ u \notin DOMAIN doc.votes /\ nominatedMovies(doc) # {}
       /\ WriteUnderCurrentId("submitVote", UpdateVotes(doc, u, v), ok)
  \/ \E s \in Statuses : \E ok \in BOOLEAN :
       /\ doc.exists
       /\ WriteUnderCurrentId("updateCycleStatus", UpdateDoc(doc, StatusWrite(s)), ok)
  \/ \E ok \in BOOLEAN : WriteUnderCurrentId("resetDailyCycle", NewCycle, ok)

DaySpec == DayInit /\ [][DayNext]_vars

\* C34: the cycle id an operation wrote under is the id the client is
\* subscribed under
C34_WritesGoToSubscribedDocument ==
  cycleId # NoCycleId => cycleId = subscribed

\* ------------------------------------------------------------------------
\* A cycle in which no store write fails and client c1 stays connected
\* ------------------------------------------------------------------------
ProgressNext ==
  \/ \E c \in Clients : OnSnapshot(c)
  \/ \E c \in Clients : \E w \in pending[c] : Check(c, w, TRUE)
  \/ \E c \in Clients : TimerFire(c, TRUE)
  \/ \E u \in Users : \E d \in Answers[u] : makeDecision(u, d, TRUE)
  \/ \E u \in Users : \E l \in SelectedMovies(u) \cup {<<>>} : submitNominations(u, l, TRUE)
  \/ \E u \in Users : \E v \in AcceptedVotes(doc) : submitVote(u, v, TRUE)
  \/ Disconnect("c2")

\* the store delivers an outstanding change notification to a connected
\* listener, and a timeout that is due runs
ProgressSpec ==
  /\ Init
  /\ [][ProgressNext]_vars
  /\ \A c \in Clients : WF_vars(unseen[c] /\ OnSnapshot(c))
  /\ \A c \in Clients : WF_vars(\E w \in pending[c] : Check(c, w, TRUE))
  /\ \A c \in Clients : WF_vars(TimerFire(c, TRUE))

\* the same, and every user submits the voting form when the voting screen
\* offers one
VotingSpec ==
  /\ ProgressSpec
  /\ \A u \in Users : WF_vars(\E v \in AcceptedVotes(doc) : submitVote(u, v, TRUE))

\* ------------------------------------------------------------------------
\* Claims on the progress of a cycle (VotingSpec, ProgressSpec)
\* ------------------------------------------------------------------------
\* C35: a cycle in GATHERING_VOTES in which every yes-decider has submitted
\* and no movie was nominated eventually is in REVEAL with the null winner
C35_ZeroNominationsReachReveal ==
  (/\ doc.current_status = "GATHERING_VOTES"
   /\ yesDecisions(doc) # {}
   /\ yesDecisions(doc) \subseteq DOMAIN doc.nominations
   /\ nominatedMovies(doc) = {})
    ~> (doc.current_status = "REVEAL" /\ doc.winning_movie = NullWinner)

\* at least 3 users have decided, at least 2 of them yes, and every
\* yes-decider has a nominations entry and a vote, with a movie nominated
Participated ==
  /\ Cardinality(DOMAIN doc.decisions) >= 3
  /\ Cardinality(yesDecisions(doc)) >= 2
  /\ yesDecisions(doc) \subseteq DOMAIN doc.nominations
  /\ nominatedMovies(doc) # {}
  /\ yesDecisions(doc) \subseteq DOMAIN doc.votes

\* C36 as claimed: once the users have participated, the cycle is
\* eventually in DASHBOARD_VIEW for good
C36_Original ==
  <>[](Participated => doc.current_status = "DASHBOARD_VIEW")

\* C36 amended: the same, unless a client that held a reveal timer
\* disconnected before the timer fired
C36_DashboardUnlessTimerLost ==
  <>[](Participated => (doc.current_status = "DASHBOARD_VIEW" \/ timerLost))

\* the users have participated, the cycle is in DASHBOARD_VIEW with nothing
\* left to run, and no timer was lost
C36_Witness ==
  /\ Participated
  /\ doc.current_status = "DASHBOARD_VIEW"
  /\ ~timerLost
  /\ \A c \in Clients : pending[c] = {} /\ timers[c] = 0

\* ------------------------------------------------------------------------
\* Claims on votes for movies nobody nominated (CalcSpec)
\* ------------------------------------------------------------------------
\* C37: a winner that is not null names a nominated movie, and an id that
\* is in nobody's nominations is not the winner however many points the
\* votes give it
C37_WinnerIsNominated ==
  winner \notin {NoResult, NullWinner} =>
    /\ \E u \in DOMAIN cycle.nominations :
         \E i \in 1..Len(cycle.nominations[u]) : cycle.nominations[u][i] = winner.movie_id
    /\ \A m \in PickIds \ Candidates(cycle) :
         RankedPoints(cycle, m) > winner.score => winner.movie_id # m

\* both voters' three picks name m3 only, which nobody nominated: the
\* winner is the nominated m1 with no points
C37_Witness ==
  /\ winner = [movie_id |-> "m1", score |-> 0]
  /\ Candidates(cycle) = {"m1"}
  /\ RankedPoints(cycle, "m3") = 12

\* ------------------------------------------------------------------------
\* Claims on the schedule within one daily cycle (ClockSpec)
\* ------------------------------------------------------------------------
\* C38: two evaluations of calculateSchedule at instants of the same daily
\* cycle (the same cycle id under the 4 AM rule), for the same document and
\* pool, give the same finish and start instants
C38_SameScheduleWithinCycle ==
  [][(/\ schedule \notin {NotScheduled, NoSchedule}
      /\ schedule' \notin {NotScheduled, NoSchedule}
      /\ getCurrentCycleId(now') = getCurrentCycleId(now))
       => /\ schedule'.finishTime = schedule.finishTime
          /\ schedule'.startTime = schedule.startTime]_vars
====
